---- MODULE Spec2Model ----
(***************************************************************************)
(* A model of the computation engines of theora: the Merkle hash-tree      *)
(* engine and its demo reducer, the RSA accumulator reducer, the KZG       *)
(* simulation flow and the recursive proof verification run.               *)
(*                                                                         *)
(* Conventions.  A value of type `T | null` is Null (the empty tuple) or   *)
(* the value itself when T is an object, and <<v>> when T is a number, a   *)
(* boolean or a string.  Hash values are symbolic terms: the hash of an input is a     *)
(* tuple holding that input, so two hashes are equal exactly when their    *)
(* inputs are (a collision-free hash); the hash mode is part of the term.  *)
(***************************************************************************)
EXTENDS Integers, Sequences, FiniteSets, TLC

VARIABLES
    \* Merkle demo state (MerkleState) and the harness around the engine
    leaves, hashMode, tree, isBuilding, selectedLeafIndex, proof,
    proofVerified, proofStep, builds, appliedBuild, tampered,
    \* The hash shown while stepping through a proof (MerkleState), and the
    \* effects in flight: computeProgressHash runs, and the results of the
    \* verifyProof calls to come
    proofProgressHash, progressRuns, verifyRuns,
    \* Accumulator demo state (AccumulatorState) and the demo's error banner
    elements, accValue, selectedIndex, witness, nonMembership, history,
    errorMsg,
    \* Polynomial demo state (PolynomialState) and the KZG handlers awaiting
    \* their hash
    coefficients, polyMode, kzg, kzgPending,
    \* Recursive demo state (RecursiveState), and the value a direct call of
    \* verifyNode returned
    recMode, treeDepth, root, verification, ivcLength, ivcChain,
    badProofTarget, verifyResult,
    \* The arguments and the result of a direct call of a library function
    callArgs, callResult

merkleVars == <<leaves, hashMode, tree, isBuilding, selectedLeafIndex, proof,
                proofVerified, proofStep, builds, appliedBuild, tampered>>

accVars == <<elements, accValue, selectedIndex, witness, nonMembership,
             history, errorMsg>>

polyVars == <<coefficients, polyMode, kzg, kzgPending>>

recVars == <<recMode, treeDepth, root, verification, ivcLength, ivcChain,
             badProofTarget, verifyResult>>

callVars == <<callArgs, callResult>>

proofViewVars == <<proofProgressHash, progressRuns, verifyRuns>>

vars == <<merkleVars, accVars, polyVars, recVars, callVars, proofViewVars>>

\* What the actions of one demo leave alone: the state of the other demos
nonMerkleVars == <<accVars, polyVars, recVars, callVars, proofViewVars>>
nonAccVars == <<merkleVars, polyVars, recVars, callVars, proofViewVars>>
nonPolyVars == <<merkleVars, accVars, recVars, callVars, proofViewVars>>
nonRecVars == <<merkleVars, accVars, polyVars, callVars, proofViewVars>>
nonCallVars == <<merkleVars, accVars, polyVars, recVars, proofViewVars>>
\* What an action of the Merkle demo that touches the proof display leaves alone
otherDemoVars == <<accVars, polyVars, recVars, callVars>>


Null == <<>>

\* No proof on display and no effect of the proof display in flight
ProofViewIdle ==
    /\ proofProgressHash = Null
    /\ progressRuns = <<>>
    /\ verifyRuns = <<>>

\* The Merkle demo left untouched (initialState with no leaves entered)
MerkleIdle ==
    /\ ProofViewIdle
    /\ leaves = <<>>
    /\ hashMode = "fnv1a"
    /\ tree = Null
    /\ isBuilding = FALSE
    /\ selectedLeafIndex = Null
    /\ proof = Null
    /\ proofVerified = Null
    /\ proofStep = 0
    /\ builds = <<>>
    /\ appliedBuild = 0
    /\ tampered = FALSE

\* The polynomial demo left untouched (initialState)
KzgEmpty ==
    [commitment |-> Null, challengeZ |-> Null, revealedValue |-> Null,
     quotientPoly |-> Null, proofHash |-> Null, verified |-> Null,
     currentStep |-> 0]

PolyInit ==
    /\ coefficients = <<0, 0, 1>>
    /\ polyMode = "coefficients"
    /\ kzg = KzgEmpty
    /\ kzgPending = <<>>

\* The recursive demo left untouched (initialState)
RecIdle ==
    /\ recMode = "tree"
    /\ treeDepth = 3
    /\ root = Null
    /\ verification = [order |-> <<>>, currentIndex |-> 0,
                       isRunning |-> FALSE, speed |-> 500]
    /\ ivcLength = 5
    /\ ivcChain = Null
    /\ badProofTarget = Null
    /\ verifyResult = Null

\* No library function called directly
CallIdle ==
    /\ callArgs = Null
    /\ callResult = Null

(***************************************************************************)
(* Bounds                                                                  *)
(***************************************************************************)
MaxLeaves == 5
\* Largest number typed into a prime input, and entries in one batch
MaxInput == 3
MaxBatch == 2
\* Accumulator actions that write a history entry, per run
MaxOps == 3
\* Longest coefficient list the Add Term button is followed to
MaxTerms == 3
\* Tree builds started in one run of the Merkle demo, the mount's included
MaxBuilds == 3
\* KZG handlers awaiting their hash at a time
MaxPending == 2
\* verifyProof calls in flight at a time
MaxRuns == 2
\* Largest modulus, and largest magnitude of the operand, modInverse is called with
MaxModulus == 12
\* Largest depth the tree depth slider is moved to (the slider ends at 5)
MaxDepth == 3

(***************************************************************************)
(* lib/hash.ts                                                             *)
(***************************************************************************)
HashModes == {"sha256", "fnv1a"}

\* hashLeaf: H('\x00' + data)
HashLeaf(data, mode) == <<"\\x00", mode, data>>

\* A slip in hashInternal: the left hash is concatenated twice.
HashInternalLeftTwice(left, right, mode) == <<"\\x01", mode, left, left>>

\* hashInternal: H('\x01' + left + right); left and right are fixed-width
\* hash strings, so the concatenation determines the pair.
HashInternal(left, right, mode) == <<"\\x01", mode, left, right>>

(***************************************************************************)
(* demos/merkle/logic: buildMerkleTree                                     *)
(***************************************************************************)
\* The first loop: one leaf node per input string, skipping falsy (empty)
\* strings.  i is the 0-based loop index.
RECURSIVE HashLeaves(_, _, _)
HashLeaves(ls, mode, i) ==
    IF i >= Len(ls) THEN <<>>
    ELSE LET leafData == ls[i + 1] IN
         IF leafData = "" THEN HashLeaves(ls, mode, i + 1)
         ELSE <<[id |-> "leaf-" \o ToString(i),
                 hash |-> HashLeaf(leafData, mode),
                 data |-> leafData,
                 depth |-> 0,
                 index |-> i]>> \o HashLeaves(ls, mode, i + 1)

\* "Duplicate last if odd"
DuplicateLast(nodes) ==
    IF Len(nodes) > 1 /\ Len(nodes) % 2 # 0
    THEN Append(nodes, [nodes[Len(nodes)] EXCEPT
                           !.id = "leaf-" \o ToString(Len(nodes)) \o "-dup",
                           !.index = Len(nodes)])
    ELSE nodes

\* The inner for loop: pair adjacent nodes, an unpaired last node with itself.
RECURSIVE PairLevel(_, _, _, _)
PairLevel(currentLevel, depth, mode, i) ==
    IF i >= Len(currentLevel) THEN <<>>
    ELSE LET left == currentLevel[i + 1]
             rightNode == IF i + 1 < Len(currentLevel)
                          THEN currentLevel[i + 2] ELSE left
         IN <<[id |-> "node-" \o ToString(depth + 1) \o "-" \o ToString(i \div 2),
               hash |-> HashInternal(left.hash, rightNode.hash, mode),
               left |-> left,
               right |-> rightNode,
               depth |-> depth + 1,
               index |-> i \div 2]>>
            \o PairLevel(currentLevel, depth, mode, i + 2)

\* The while loop: build levels until one node remains.
RECURSIVE BuildLevels(_, _, _)
BuildLevels(currentLevel, depth, mode) ==
    IF Len(currentLevel) > 1
    THEN BuildLevels(PairLevel(currentLevel, depth, mode, 0), depth + 1, mode)
    ELSE [level |-> currentLevel, depth |-> depth]

\* A slip in fixDepth: the right subtree is not visited
RECURSIVE fixDepthLeftOnly(_, _)
fixDepthLeftOnly(node, d) ==
    IF "left" \in DOMAIN node
    THEN [node EXCEPT !.depth = d, !.left = fixDepthLeftOnly(node.left, d + 1)]
    ELSE [node EXCEPT !.depth = d]

\* fixDepth: root gets 0, each child one more than its parent.
RECURSIVE fixDepth(_, _)
fixDepth(node, d) ==
    IF "left" \in DOMAIN node
    THEN [node EXCEPT !.depth = d,
                      !.left = fixDepth(node.left, d + 1),
                      !.right = fixDepth(node.right, d + 1)]
    ELSE [node EXCEPT !.depth = d]

\* findPath (local to generateProof and getProofPathNodes): the nodes from
\* `node` down to the node with id targetId, or Null.
RECURSIVE findPath(_, _)
findPath(node, targetId) ==
    IF node.id = targetId THEN <<node>>
    ELSE IF "left" \in DOMAIN node
    THEN LET viaLeft == findPath(node.left, targetId) IN
         IF viaLeft # Null THEN <<node>> \o viaLeft
         ELSE LET viaRight == findPath(node.right, targetId) IN
              IF viaRight # Null THEN <<node>> \o viaRight ELSE Null
    ELSE Null

BuildMerkleTree(ls, mode) ==
    IF Len(ls) = 0 THEN Null
    ELSE LET nodes == DuplicateLast(HashLeaves(ls, mode, 0))
             built == BuildLevels(nodes, 0, mode)
         IN IF Len(built.level) = 0 THEN Null
            ELSE LET fixedRoot == fixDepth(built.level[1], 0) IN
                 [root |-> fixedRoot,
                  \* allLeaves holds the node objects fixDepth wrote to
                  leaves |-> [k \in 1..Len(nodes) |->
                                 [nodes[k] EXCEPT
                                     !.depth = Len(findPath(fixedRoot, nodes[k].id)) - 1]],
                  depth |-> built.depth,
                  nodeCount |-> Len(nodes) * 2 - 1]

(***************************************************************************)
(* demos/merkle/logic: generateProof, verifyProof                          *)
(***************************************************************************)
\* A slip in the sibling loop: a node paired with itself yields no sibling
RECURSIVE CollectSiblingsButOwn(_, _)
CollectSiblingsButOwn(path, i) ==
    IF i >= Len(path) THEN <<>>
    ELSE LET parent == path[i]
             current == path[i + 1]
         IN (IF "left" \in DOMAIN parent /\ parent.left.id # parent.right.id
             THEN IF parent.left.id = current.id
                  THEN <<[hash |-> parent.right.hash, position |-> "right"]>>
                  ELSE <<[hash |-> parent.left.hash, position |-> "left"]>>
             ELSE <<>>)
            \o CollectSiblingsButOwn(path, i + 1)

\* The sibling loop of generateProof: for i = 1 .. path.length - 1 (0-based),
\* parent = path[i - 1], current = path[i]; it pushes in that order.
RECURSIVE CollectSiblings(_, _)
CollectSiblings(path, i) ==
    IF i >= Len(path) THEN <<>>
    ELSE LET parent == path[i]
             current == path[i + 1]
         IN (IF "left" \in DOMAIN parent
             THEN IF parent.left.id = current.id
                  THEN <<[hash |-> parent.right.hash, position |-> "right"]>>
                  ELSE <<[hash |-> parent.left.hash, position |-> "left"]>>
             ELSE <<>>)
            \o CollectSiblings(path, i + 1)

\* A slip in generateProof's range check: index 0 is turned away
GenerateProofFromOne(t, leafIndex, mode) ==
    IF leafIndex <= 0 \/ leafIndex >= Len(t.leaves) THEN Null
    ELSE LET leaf == t.leaves[leafIndex + 1]
             path == findPath(t.root, leaf.id)
         IN IF path = Null THEN Null
            ELSE [leafIndex |-> leafIndex,
                  leafHash |-> leaf.hash,
                  siblings |-> CollectSiblings(path, 1),
                  root |-> t.root.hash]

GenerateProof(t, leafIndex, mode) ==
    IF leafIndex < 0 \/ leafIndex >= Len(t.leaves) THEN Null
    ELSE LET leaf == t.leaves[leafIndex + 1]
             path == findPath(t.root, leaf.id)
         IN IF path = Null THEN Null
            ELSE [leafIndex |-> leafIndex,
                  leafHash |-> leaf.hash,
                  siblings |-> CollectSiblings(path, 1),
                  root |-> t.root.hash]

\* The replay loop shared by verifyProof and the progress-hash effect: fold
\* the first `steps` siblings into currentHash, taken in list order.
RECURSIVE ReplaySiblings(_, _, _, _, _)
ReplaySiblings(currentHash, siblings, i, steps, mode) ==
    IF i > steps THEN currentHash
    ELSE ReplaySiblings(
             IF siblings[i].position = "right"
             THEN HashInternal(currentHash, siblings[i].hash, mode)
             ELSE HashInternal(siblings[i].hash, currentHash, mode),
             siblings, i + 1, steps, mode)

VerifyProof(p, mode) ==
    ReplaySiblings(p.leafHash, p.siblings, 1, Len(p.siblings), mode) = p.root

(***************************************************************************)
(* lib/math: modPow, isPrime                                               *)
(***************************************************************************)
\* The while loop of modPow: square-and-multiply over the bits of exp.
RECURSIVE ModPowLoop(_, _, _, _)
ModPowLoop(result, base, exp, mod) ==
    IF exp > 0
    THEN ModPowLoop(IF exp % 2 = 1 THEN (result * base) % mod ELSE result,
                    (base * base) % mod, exp \div 2, mod)
    ELSE result

\* ((base % mod) + mod) % mod is the non-negative residue, which is what %
\* yields here for mod > 0.
ModPow(base, exp, mod) ==
    IF mod = 1 THEN 0 ELSE ModPowLoop(1, base % mod, exp, mod)

\* The 6k +- 1 loop of isPrime, from i upward.
RECURSIVE IsPrimeLoop(_, _)
IsPrimeLoop(n, i) ==
    IF i * i > n THEN TRUE
    ELSE IF n % i = 0 \/ n % (i + 2) = 0 THEN FALSE
    ELSE IsPrimeLoop(n, i + 6)

IsPrime(n) ==
    IF n < 2 THEN FALSE
    ELSE IF n < 4 THEN TRUE
    ELSE IF n % 2 = 0 \/ n % 3 = 0 THEN FALSE
    ELSE IsPrimeLoop(n, 5)

(***************************************************************************)
(* demos/accumulator/logic                                                 *)
(***************************************************************************)
\* The source's modulus 1000000007 * 1000000009 and generator 65537 need
\* 128-bit products; the model keeps their shape (n a product of two twin
\* primes, g a Fermat prime below n) at a size whose squares fit the
\* checker's integers.  The arithmetic itself is unbounded in both.
ACC_N == 101 * 103
ACC_G == 17

\* product *= x for every element of the list except the one at index skip
\* (0-based; -1 skips none)
RECURSIVE ProductExcept(_, _, _)
ProductExcept(primes, skip, i) ==
    IF i >= Len(primes) THEN 1
    ELSE (IF i # skip THEN primes[i + 1] ELSE 1) * ProductExcept(primes, skip, i + 1)

addElement(acc, prime, n) == ModPow(acc, prime, n)

\* A slip in removeElement: the comparison skips the element after the
\* removed one.
removeElementOffByOne(primes, removedIndex, g, n) ==
    ModPow(g, ProductExcept(primes, removedIndex + 1, 0), n)

removeElement(primes, removedIndex, g, n) ==
    ModPow(g, ProductExcept(primes, removedIndex, 0), n)

\* A slip in batchAdd: the product starts at the second prime
batchAddSkippingFirst(acc, primes, n) ==
    ModPow(acc, ProductExcept(primes, 0, 0), n)

batchAdd(acc, primes, n) == ModPow(acc, ProductExcept(primes, -1, 0), n)

\* Math.random() in randomPrime yields any candidate in min..max; the scan
\* goes up to max, then down from candidate - 1, then falls back to 3.
RandomPrimeMin == 3
RandomPrimeMax == 997

RECURSIVE ScanUp(_)
ScanUp(current) ==
    IF current > RandomPrimeMax THEN 0
    ELSE IF IsPrime(current) THEN current ELSE ScanUp(current + 1)

RECURSIVE ScanDown(_)
ScanDown(current) ==
    IF current < RandomPrimeMin THEN 3
    ELSE IF IsPrime(current) THEN current ELSE ScanDown(current - 1)

randomPrime(candidate) ==
    IF ScanUp(candidate) # 0 THEN ScanUp(candidate) ELSE ScanDown(candidate - 1)

(***************************************************************************)
(* AccumulatorDemo: reducer and handlers                                   *)
(***************************************************************************)
HistoryCap == 50

\* PushHistory putting the entry behind the older ones
PushHistoryOldestFirst(operation, detail, accBefore, accAfter) ==
    SubSeq(history \o <<[operation |-> operation,
                         detail |-> detail,
                         accBefore |-> ToString(accBefore),
                         accAfter |-> ToString(accAfter)]>>,
           1, IF Len(history) + 1 > HistoryCap THEN HistoryCap ELSE Len(history) + 1)

\* [entry, ...state.history].slice(0, 50); timestamps are left out
PushHistory(operation, detail, accBefore, accAfter) ==
    SubSeq(<<[operation |-> operation,
              detail |-> detail,
              accBefore |-> ToString(accBefore),
              accAfter |-> ToString(accAfter)]>> \o history,
           1, IF Len(history) + 1 > HistoryCap THEN HistoryCap ELSE Len(history) + 1)

ElementPrimes == [k \in 1..Len(elements) |-> elements[k].prime]

\* What parseInt(text, 10) can yield for a typed text: NaN, or an integer n
\* written <<n>>
NaN == <<>>
ParsedInputs == {NaN} \cup {<<n>> : n \in -1..MaxInput}

\* !isNaN(num) && isPrime(num)
ValidPrimeInput(num) == num # NaN /\ IsPrime(num[1])

AccInit ==
    /\ elements = <<>>
    /\ accValue = ACC_G
    /\ selectedIndex = Null
    /\ witness = Null
    /\ nonMembership = Null
    /\ history = <<>>
    /\ errorMsg = Null

\* A slip in ADD_ELEMENT: the non-member panel is left as it is
ADD_ELEMENTKeepingPanel(prime) ==
    LET accAfter == addElement(accValue, prime, ACC_N) IN
    /\ elements' = Append(elements,
                          [prime |-> prime, label |-> "e" \o ToString(Len(elements))])
    /\ accValue' = accAfter
    /\ witness' = Null
    /\ UNCHANGED nonMembership
    /\ selectedIndex' = Null
    /\ history' = PushHistory("add", "Added prime " \o ToString(prime),
                              accValue, accAfter)

\* reducer, ADD_ELEMENT
ADD_ELEMENT(prime) ==
    LET accAfter == addElement(accValue, prime, ACC_N) IN
    /\ elements' = Append(elements,
                          [prime |-> prime, label |-> "e" \o ToString(Len(elements))])
    /\ accValue' = accAfter
    /\ witness' = Null
    /\ nonMembership' = Null
    /\ selectedIndex' = Null
    /\ history' = PushHistory("add", "Added prime " \o ToString(prime),
                              accValue, accAfter)

\* handleAddPrime: the typed text is parsed, checked, then dispatched
HandleAddPrime ==
    /\ Len(history) < MaxOps
    /\ \E num \in ParsedInputs :
          IF ~ValidPrimeInput(num)
          THEN /\ errorMsg' = <<"Please enter a valid prime number">>
               /\ UNCHANGED <<elements, accValue, selectedIndex, witness,
                              nonMembership, history>>
          ELSE /\ ADD_ELEMENT(num[1])
               /\ UNCHANGED errorMsg
    /\ UNCHANGED nonAccVars

\* handleRandomPrime
HandleRandomPrime ==
    /\ Len(history) < MaxOps
    /\ \E candidate \in RandomPrimeMin..MaxInput :
          ADD_ELEMENT(randomPrime(candidate))
    /\ UNCHANGED errorMsg
    /\ UNCHANGED nonAccVars

\* handleBatchAdd over the comma-separated entries of batchPrimes, then the
\* reducer's BATCH_ADD
BatchInputs == UNION {[1..n -> ParsedInputs] : n \in 0..MaxBatch}

HandleBatchAdd ==
    /\ Len(history) < MaxOps
    /\ \E entries \in BatchInputs :
          IF \E k \in 1..Len(entries) : ~ValidPrimeInput(entries[k])
          THEN /\ errorMsg' = <<"Invalid prime">>
               /\ UNCHANGED <<elements, accValue, selectedIndex, witness,
                              nonMembership, history>>
          ELSE IF Len(entries) = 0
          THEN /\ errorMsg' = <<"Please enter at least one prime">>
               /\ UNCHANGED <<elements, accValue, selectedIndex, witness,
                              nonMembership, history>>
          ELSE LET primes == [i \in 1..Len(entries) |-> entries[i][1]]
                   accAfter == batchAdd(accValue, primes, ACC_N) IN
               /\ elements' = elements \o
                     [i \in 1..Len(entries) |->
                         [prime |-> primes[i],
                          label |-> "e" \o ToString(Len(elements) + i - 1)]]
               /\ accValue' = accAfter
               /\ witness' = Null
               /\ nonMembership' = Null
               /\ selectedIndex' = Null
               /\ history' = PushHistory("batch-add",
                                "Added " \o ToString(Len(entries)) \o " primes in batch",
                                accValue, accAfter)
               /\ UNCHANGED errorMsg
    /\ UNCHANGED nonAccVars

\* reducer, REMOVE_ELEMENT; the Remove button of an element passes its index,
\* the reducer returns the state as it is for an index out of range
REMOVE_ELEMENT ==
    /\ Len(history) < MaxOps
    /\ \E index \in -1..Len(elements) :
          IF index < 0 \/ index >= Len(elements)
          THEN UNCHANGED <<elements, accValue, selectedIndex, witness,
                           nonMembership, history>>
          ELSE LET accAfter == removeElement(ElementPrimes, index, ACC_G, ACC_N) IN
               /\ elements' = [k \in 1..(Len(elements) - 1) |->
                                  IF k <= index THEN elements[k] ELSE elements[k + 1]]
               /\ accValue' = accAfter
               /\ witness' = Null
               /\ nonMembership' = Null
               /\ selectedIndex' = Null
               /\ history' = PushHistory("remove",
                                 "Removed prime " \o ToString(elements[index + 1].prime),
                                 accValue, accAfter)
    /\ UNCHANGED errorMsg
    /\ UNCHANGED nonAccVars

\* reducer, CLEAR
CLEAR ==
    /\ Len(history) < MaxOps
    /\ elements' = <<>>
    /\ accValue' = ACC_G
    /\ selectedIndex' = Null
    /\ witness' = Null
    /\ nonMembership' = Null
    /\ history' = PushHistory("add", "Accumulator cleared", accValue, ACC_G)
    /\ UNCHANGED errorMsg
    /\ UNCHANGED nonAccVars

\* the error banner's 3 s timeout
ErrorTimeout ==
    /\ errorMsg # Null
    /\ errorMsg' = Null
    /\ UNCHANGED <<elements, accValue, selectedIndex, witness, nonMembership,
                   history>>
    /\ UNCHANGED nonAccVars

InitAcc == AccInit /\ MerkleIdle /\ PolyInit /\ RecIdle /\ CallIdle

NextAcc ==
    \/ HandleAddPrime
    \/ HandleRandomPrime
    \/ HandleBatchAdd
    \/ REMOVE_ELEMENT
    \/ CLEAR
    \/ ErrorTimeout

SpecAcc == InitAcc /\ [][NextAcc]_vars

(***************************************************************************)
(* lib/math: polynomialEvaluate; demos/polynomial/logic                    *)
(***************************************************************************)
\* sha256 of a string, and JSON.stringify of a number array: both one-to-one
Sha256(data) == <<"sha256", data>>
JsonStringify(numbers) == <<"json", numbers>>

\* Numbers are IEEE doubles: the result of every + and * is rounded to the
\* significant bits a double carries, ties to the even neighbour. A double
\* carries 53 bits; the model carries MantissaBits, so that whole numbers
\* below 2^MantissaBits in magnitude are exact and larger results are rounded.
MantissaBits == 8

\* The spacing of the representable numbers around a magnitude
RECURSIVE Spacing(_, _)
Spacing(mag, step) ==
    IF mag \div step < 2 ^ MantissaBits THEN step ELSE Spacing(mag, step * 2)

RoundToDouble(v) ==
    LET mag == IF v < 0 THEN -v ELSE v
        step == Spacing(mag, 1)
        down == (mag \div step) * step
        rest == mag - down
        nearest == IF 2 * rest < step THEN down
                   ELSE IF 2 * rest > step THEN down + step
                   ELSE IF (down \div step) % 2 = 0 THEN down ELSE down + step
    IN IF v < 0 THEN -nearest ELSE nearest

\* a * b, a + b and a - b on doubles
Times(a, b) == RoundToDouble(a * b)
Plus(a, b) == RoundToDouble(a + b)
Minus(a, b) == RoundToDouble(a - b)

\* Horner's loop, from index i (0-based) down to 0
RECURSIVE Horner(_, _, _, _)
Horner(coeffs, x, i, result) ==
    IF i < 0 THEN result
    ELSE Horner(coeffs, x, i - 1, Plus(Times(result, x), coeffs[i + 1]))

polynomialEvaluate(coeffs, x) == Horner(coeffs, x, Len(coeffs) - 1, 0)

\* quotient[j] (0-based) as the synthetic division loop leaves it:
\* quotient[n - 2] = coeffs[n - 1], quotient[i - 1] = coeffs[i] + z * quotient[i]
RECURSIVE QuotientAt(_, _, _)
QuotientAt(coeffs, z, j) ==
    IF j = Len(coeffs) - 2 THEN coeffs[Len(coeffs)]
    ELSE Plus(coeffs[j + 2], Times(z, QuotientAt(coeffs, z, j + 1)))

\* A slip in the synthetic division: dividing by (x + z)
computeQuotientPolynomialOppositeSign(coeffs, z) ==
    IF Len(coeffs) = 0 THEN <<>>
    ELSE [k \in 1..(Len(coeffs) - 1) |-> QuotientAt(coeffs, -z, k - 1)]

\* For a single coefficient the array has length 0 (the write to index -1
\* adds no element).
computeQuotientPolynomial(coeffs, z) ==
    IF Len(coeffs) = 0 THEN <<>>
    ELSE [k \in 1..(Len(coeffs) - 1) |-> QuotientAt(coeffs, z, k - 1)]

simulateKzgCommit(coeffs) == Sha256(JsonStringify(coeffs))

simulateKzgProof(coeffs, z) ==
    [revealedValue |-> polynomialEvaluate(coeffs, z),
     quotientPoly |-> computeQuotientPolynomial(coeffs, z),
     proofHash |-> Sha256(JsonStringify(computeQuotientPolynomial(coeffs, z)))]

\* Coefficients and challenge points are whole numbers here. A revealed value
\* handed to the verification need not be whole: it is counted in
\* half-millionths, and Whole(v) is the whole number v counted that way
PerOne == 2000000
Whole(v) == v * PerOne

\* 1e-6, in half-millionths
Tolerance == 2

\* Math.abs
MathAbs(v) == IF v < 0 THEN -v ELSE v

simulateKzgVerifyIgnoringCommitment(commitment, z, pz, proofHash, coeffs) ==
    IF MathAbs(Whole(polynomialEvaluate(coeffs, z)) - pz) > Tolerance THEN FALSE
    ELSE Sha256(JsonStringify(computeQuotientPolynomial(coeffs, z))) = proofHash

simulateKzgVerifyIgnoringProof(commitment, z, pz, proofHash, coeffs) ==
    IF simulateKzgCommit(coeffs) # commitment THEN FALSE
    ELSE IF MathAbs(Whole(polynomialEvaluate(coeffs, z)) - pz) > Tolerance THEN FALSE
    ELSE TRUE

simulateKzgVerify(commitment, z, pz, proofHash, coeffs) ==
    IF simulateKzgCommit(coeffs) # commitment THEN FALSE
    ELSE IF MathAbs(Whole(polynomialEvaluate(coeffs, z)) - pz) > Tolerance THEN FALSE
    ELSE Sha256(JsonStringify(computeQuotientPolynomial(coeffs, z))) = proofHash

(***************************************************************************)
(* PolynomialDemo: coefficients and the KZG flow                           *)
(***************************************************************************)
\* Slider moves tried: the constant term set to 0 or to 1; and the challenge
\* points simulateKzgChallenge can draw (Math.random)
SliderMoves == {[index |-> 0, value |-> 0], [index |-> 0, value |-> 1]}
ChallengePoints == {-1, 2}

\* An async handler's continuation: the action it dispatches once its await
\* returns
Await(action) ==
    /\ Len(kzgPending) < MaxPending
    /\ kzgPending' = Append(kzgPending, action)

\* handleCoeffChange -> reducer, SET_COEFF (sliders show in coefficients
\* mode, one per coefficient)
SET_COEFF ==
    /\ polyMode = "coefficients"
    /\ \E move \in SliderMoves :
          /\ move.index < Len(coefficients)
          /\ coefficients' = [coefficients EXCEPT ![move.index + 1] = move.value]
    /\ UNCHANGED <<polyMode, kzg, kzgPending>>
    /\ UNCHANGED nonPolyVars

\* handleModeToggle -> reducer, SET_MODE (the polynomial demo's)
SET_POLY_MODE ==
    /\ \E mode \in {"coefficients", "lagrange"} :
          /\ polyMode' = mode
          /\ coefficients' = IF mode = "coefficients" THEN coefficients ELSE <<>>
    /\ UNCHANGED <<kzg, kzgPending>>
    /\ UNCHANGED nonPolyVars

\* handleKzgCommit up to its await; the button is disabled without
\* coefficients
handleKzgCommit ==
    /\ Len(coefficients) # 0
    /\ Await([type |-> "KZG_COMMIT",
              commitment |-> simulateKzgCommit(coefficients)])
    /\ UNCHANGED <<coefficients, polyMode, kzg>>
    /\ UNCHANGED nonPolyVars

\* handleKzgChallenge -> reducer, KZG_CHALLENGE; the button is disabled while
\* currentStep < 1
handleKzgChallenge ==
    /\ kzg.currentStep >= 1
    /\ \E z \in ChallengePoints :
          kzg' = [kzg EXCEPT !.challengeZ = <<z>>, !.currentStep = 2]
    /\ UNCHANGED <<coefficients, polyMode, kzgPending>>
    /\ UNCHANGED nonPolyVars

\* handleKzgReveal up to its await; the button is disabled while
\* currentStep < 2
handleKzgReveal ==
    /\ kzg.currentStep >= 2
    /\ IF kzg.challengeZ = Null
       THEN UNCHANGED kzgPending
       ELSE LET result == simulateKzgProof(coefficients, kzg.challengeZ[1]) IN
            Await([type |-> "KZG_REVEAL",
                   revealedValue |-> result.revealedValue,
                   quotientPoly |-> result.quotientPoly,
                   proofHash |-> result.proofHash])
    /\ UNCHANGED <<coefficients, polyMode, kzg>>
    /\ UNCHANGED nonPolyVars

\* handleKzgVerify up to its await; the button is disabled while
\* currentStep < 3
handleKzgVerify ==
    /\ kzg.currentStep >= 3
    /\ IF \/ kzg.commitment = Null
          \/ kzg.challengeZ = Null
          \/ kzg.revealedValue = Null
          \/ kzg.proofHash = Null
       THEN UNCHANGED kzgPending
       ELSE Await([type |-> "KZG_VERIFY",
                   verified |-> simulateKzgVerify(kzg.commitment,
                                    kzg.challengeZ[1], Whole(kzg.revealedValue[1]),
                                    kzg.proofHash, coefficients)])
    /\ UNCHANGED <<coefficients, polyMode, kzg>>
    /\ UNCHANGED nonPolyVars

\* the Reset button -> reducer, KZG_RESET
KZG_RESET ==
    /\ kzg' = KzgEmpty
    /\ UNCHANGED <<coefficients, polyMode, kzgPending>>
    /\ UNCHANGED nonPolyVars

\* reducer, KZG_COMMIT / KZG_REVEAL / KZG_VERIFY
KzgReduce(action) ==
    IF action.type = "KZG_COMMIT"
    THEN [KzgEmpty EXCEPT !.commitment = action.commitment, !.currentStep = 1]
    ELSE IF action.type = "KZG_REVEAL"
    THEN [kzg EXCEPT !.revealedValue = <<action.revealedValue>>,
                     !.quotientPoly = <<action.quotientPoly>>,
                     !.proofHash = action.proofHash,
                     !.currentStep = 3]
    ELSE [kzg EXCEPT !.verified = <<action.verified>>, !.currentStep = 4]

\* The await of one pending handler returns, in any order, and the handler
\* dispatches.
KzgDispatch ==
    /\ \E i \in 1..Len(kzgPending) :
          /\ kzg' = KzgReduce(kzgPending[i])
          /\ kzgPending' = [k \in 1..(Len(kzgPending) - 1) |->
                               IF k < i THEN kzgPending[k] ELSE kzgPending[k + 1]]
    /\ UNCHANGED <<coefficients, polyMode>>
    /\ UNCHANGED nonPolyVars

\* the Add Term button -> reducer, ADD_TERM (shown in coefficients mode)
ADD_TERM ==
    /\ polyMode = "coefficients"
    /\ Len(coefficients) < MaxTerms
    /\ coefficients' = Append(coefficients, 0)
    /\ UNCHANGED <<polyMode, kzg, kzgPending>>
    /\ UNCHANGED nonPolyVars

\* the Remove Term button -> reducer, REMOVE_TERM
REMOVE_TERM ==
    /\ polyMode = "coefficients"
    /\ coefficients' = IF Len(coefficients) <= 1 THEN coefficients
                       ELSE SubSeq(coefficients, 1, Len(coefficients) - 1)
    /\ UNCHANGED <<polyMode, kzg, kzgPending>>
    /\ UNCHANGED nonPolyVars

InitKzg == PolyInit /\ MerkleIdle /\ AccInit /\ RecIdle /\ CallIdle

NextKzg ==
    \/ SET_COEFF
    \/ SET_POLY_MODE
    \/ handleKzgCommit
    \/ handleKzgChallenge
    \/ handleKzgReveal
    \/ handleKzgVerify
    \/ KZG_RESET
    \/ KzgDispatch

SpecKzg == InitKzg /\ [][NextKzg]_vars

(***************************************************************************)
(* C6: in every reachable state of the KZG flow, late completions of the   *)
(* asynchronous handlers included, a challenge point is present only if a  *)
(* commitment is, a revealed value and proof hash only if a challenge      *)
(* point is, and a verification result only if a revealed value and proof  *)
(* hash are.                                                               *)
(***************************************************************************)
C6_LaterStageNeedsEarlier ==
    /\ kzg.challengeZ # Null => kzg.commitment # Null
    /\ (kzg.revealedValue # Null \/ kzg.proofHash # Null) => kzg.challengeZ # Null
    /\ kzg.verified # Null => (kzg.revealedValue # Null /\ kzg.proofHash # Null)

(***************************************************************************)
(* demos/recursive/logic                                                   *)
(***************************************************************************)
\* `node_${currentDepth}_${index}`
NodeId(currentDepth, index) ==
    "node_" \o ToString(currentDepth) \o "_" \o ToString(index)

\* A slip in buildNode: the right child takes the left child's index
RECURSIVE buildNodeTwinIndex(_, _, _, _)
buildNodeTwinIndex(currentDepth, index, depth, target) ==
    [id |-> NodeId(currentDepth, index),
     depth |-> currentDepth,
     index |-> index,
     curve |-> IF currentDepth % 2 = 0 THEN "pallas" ELSE "vesta",
     status |-> "pending",
     label |-> "pi_" \o ToString(currentDepth) \o "_" \o ToString(index),
     children |-> IF currentDepth < depth
                  THEN <<buildNodeTwinIndex(currentDepth + 1, index * 2, depth, target),
                         buildNodeTwinIndex(currentDepth + 1, index * 2, depth, target)>>
                  ELSE <<>>,
     isBadProof |-> (target = <<NodeId(currentDepth, index)>>)]

\* buildNode of buildProofTree
RECURSIVE buildNode(_, _, _, _)
buildNode(currentDepth, index, depth, target) ==
    [id |-> NodeId(currentDepth, index),
     depth |-> currentDepth,
     index |-> index,
     curve |-> IF currentDepth % 2 = 0 THEN "pallas" ELSE "vesta",
     status |-> "pending",
     label |-> "pi_" \o ToString(currentDepth) \o "_" \o ToString(index),
     children |-> IF currentDepth < depth
                  THEN <<buildNode(currentDepth + 1, index * 2, depth, target),
                         buildNode(currentDepth + 1, index * 2 + 1, depth, target)>>
                  ELSE <<>>,
     isBadProof |-> (target = <<NodeId(currentDepth, index)>>)]

buildProofTree(depth, target) == buildNode(0, 0, depth, target)

\* The nodes of a list of subtrees in the order traverse() visits them:
\* a node, then its children left to right
RECURSIVE Traverse(_)
Traverse(nodes) ==
    IF Len(nodes) = 0 THEN <<>>
    ELSE <<nodes[1]>> \o Traverse(nodes[1].children) \o Traverse(Tail(nodes))

\* A slip in getVerificationOrder: a level also takes the deeper nodes
SelectDepthOrDeeper(nodes, d) == SelectSeq(nodes, LAMBDA n : n.depth >= d)

SelectDepth(nodes, d) == SelectSeq(nodes, LAMBDA n : n.depth = d)

RECURSIVE MaxDepthOf(_)
MaxDepthOf(nodes) ==
    IF Len(nodes) = 0 THEN 0
    ELSE LET rest == MaxDepthOf(Tail(nodes)) IN
         IF nodes[1].depth > rest THEN nodes[1].depth ELSE rest

Ids(nodes) == [k \in 1..Len(nodes) |-> nodes[k].id]

\* A slip in getVerificationOrder: shallowest level first
RECURSIVE OrderTopDown(_, _)
OrderTopDown(nodes, depth) ==
    IF depth < 0 THEN <<>>
    ELSE OrderTopDown(nodes, depth - 1) \o Ids(SelectDepth(nodes, depth))

\* for (depth = maxDepth; depth >= 0; depth--) push the ids of that depth
RECURSIVE OrderFromDepth(_, _)
OrderFromDepth(nodes, depth) ==
    IF depth < 0 THEN <<>>
    ELSE Ids(SelectDepth(nodes, depth)) \o OrderFromDepth(nodes, depth - 1)

getVerificationOrder(r) ==
    OrderFromDepth(Traverse(<<r>>), MaxDepthOf(Traverse(<<r>>)))

\* getAllNodes: id -> node; a later node of the traversal replaces an
\* earlier one with the same id
getAllNodes(r) == Traverse(<<r>>)

RECURSIVE MapGetFrom(_, _, _)
MapGetFrom(allNodes, id, k) ==
    IF k = 0 THEN Null
    ELSE IF allNodes[k].id = id THEN allNodes[k]
    ELSE MapGetFrom(allNodes, id, k - 1)

MapGet(allNodes, id) == MapGetFrom(allNodes, id, Len(allNodes))

\* A slip in the loop of verifyNode: it returns after looking at one child
CheckFirstChildOnly(node, allNodes, k) ==
    IF k > Len(node.children) THEN "verified"
    ELSE LET childNode == MapGet(allNodes, node.children[k].id) IN
         IF childNode = Null THEN "verified"
         ELSE IF childNode.status = "failed" THEN "failed"
         ELSE IF childNode.status # "verified" THEN "pending"
         ELSE "verified"

\* The for loop of verifyNode over node.children, from child k on
RECURSIVE CheckChildren(_, _, _)
CheckChildren(node, allNodes, k) ==
    IF k > Len(node.children) THEN "verified"
    ELSE LET childNode == MapGet(allNodes, node.children[k].id) IN
         IF childNode = Null THEN CheckChildren(node, allNodes, k + 1)
         ELSE IF childNode.status = "failed" THEN "failed"
         ELSE IF childNode.status # "verified" THEN "pending"
         ELSE CheckChildren(node, allNodes, k + 1)

\* A slip in verifyNode: the bad-proof flag is not looked at
verifyNodeUnflagged(node, allNodes) ==
    IF Len(node.children) = 0 THEN "verified"
    ELSE CheckChildren(node, allNodes, 1)

verifyNode(node, allNodes) ==
    IF node.isBadProof THEN "failed"
    ELSE IF Len(node.children) = 0 THEN "verified"
    ELSE CheckChildren(node, allNodes, 1)

\* `step_${i}_input_${inputValue}` hashed with fnv1a
Fnv1a(data) == "fnv1a(" \o data \o ")"

\* buildIvcChain; inputs[i + 1] is the value Math.random gave step i
buildIvcChain(length, inputs) ==
    [steps |-> [k \in 1..length |->
                   [id |-> "ivc_step_" \o ToString(k - 1),
                    index |-> k - 1,
                    curve |-> IF (k - 1) % 2 = 0 THEN "pallas" ELSE "vesta",
                    status |-> "pending",
                    accumulatorHash |->
                        Fnv1a("step_" \o ToString(k - 1) \o "_input_"
                                  \o ToString(inputs[k])),
                    inputValue |-> inputs[k],
                    folded |-> FALSE]],
     currentFoldIndex |-> -1]

(***************************************************************************)
(* verifyNode called directly on a node of a small tree in any state       *)
(***************************************************************************)
ProofStatuses == {"pending", "verifying", "verified", "failed"}

\* The k-th node of the traversal given status st[k] and flag bad[k], as a
\* test does by assigning node.status and node.isBadProof
RECURSIVE Decorate(_, _, _, _)
Decorate(node, st, bad, k) ==
    [node EXCEPT
        !.status = st[k],
        !.isBadProof = bad[k],
        !.children = [c \in 1..Len(node.children) |->
                         Decorate(node.children[c], st, bad, k + c)]]

InitVerifyNode ==
    /\ \E depth \in {0, 1}, st \in [1..3 -> ProofStatuses], bad \in [1..3 -> BOOLEAN] :
          root = Decorate(buildProofTree(depth, Null), st, bad, 1)
    /\ recMode = "tree"
    /\ treeDepth = 3
    /\ verification = [order |-> <<>>, currentIndex |-> 0,
                       isRunning |-> FALSE, speed |-> 500]
    /\ ivcLength = 5
    /\ ivcChain = Null
    /\ badProofTarget = Null
    /\ verifyResult = Null
    /\ MerkleIdle
    /\ AccInit
    /\ PolyInit
    /\ CallIdle

\* verifyNode(node, getAllNodes(root)) for a node of the tree
CallVerifyNode ==
    /\ \E k \in 1..Len(getAllNodes(root)) :
          verifyResult' =
              [id |-> getAllNodes(root)[k].id,
               status |-> verifyNode(getAllNodes(root)[k], getAllNodes(root))]
    /\ UNCHANGED <<recMode, treeDepth, root, verification, ivcLength, ivcChain,
                   badProofTarget>>
    /\ UNCHANGED nonRecVars

NextVerifyNode == CallVerifyNode

SpecVerifyNode == InitVerifyNode /\ [][NextVerifyNode]_vars

(***************************************************************************)
(* C7: verifyNode returns failed for a flagged node; verified for an       *)
(* unflagged node without children; for an unflagged node with children,   *)
(* failed if any child is failed (whatever the status and position of the  *)
(* other child), otherwise pending if any child is not verified, and       *)
(* verified only when all children are verified.                           *)
(***************************************************************************)
C7_VerifyNodeRule ==
    verifyResult # Null =>
        LET node == MapGet(getAllNodes(root), verifyResult.id)
            childStatuses == {node.children[c].status : c \in 1..Len(node.children)}
        IN verifyResult.status =
              IF node.isBadProof THEN "failed"
              ELSE IF Len(node.children) = 0 THEN "verified"
              ELSE IF "failed" \in childStatuses THEN "failed"
              ELSE IF childStatuses # {"verified"} THEN "pending"
              ELSE "verified"

(***************************************************************************)
(* RecursiveDemo: reducer, controls and the auto-verify timer              *)
(***************************************************************************)
\* Depths a shared URL can carry beyond the slider's; texts typed into the
\* bad-proof field: nothing, an id no tree has, and the leftmost and the
\* rightmost node of each level; values Math.random gives an IVC step
UrlDepths == {0, 1}
InjectInputs ==
    {"", "node_0_1"}
        \cup {NodeId(d, 0) : d \in 0..MaxDepth}
        \cup {NodeId(d, 2^d - 1) : d \in 0..MaxDepth}
IvcInputs == {1, 100}

\* reducer, BUILD_TREE, for the given depth and target
BuildTree(depth, target) ==
    /\ root' = buildProofTree(depth, target)
    /\ verification' =
          [verification EXCEPT
              !.order = getVerificationOrder(buildProofTree(depth, target)),
              !.currentIndex = 0,
              !.isRunning = FALSE]

\* State after the mount: the auto-build effect dispatched BUILD_TREE.
MountedRec ==
    /\ recMode = "tree"
    /\ treeDepth = 3
    /\ root = buildProofTree(3, Null)
    /\ verification = [order |-> getVerificationOrder(buildProofTree(3, Null)),
                       currentIndex |-> 0, isRunning |-> FALSE, speed |-> 500]
    /\ ivcChain = Null

\* State after the mount with a URL payload {mode: 'tree', depth}: SET_MODE,
\* SET_DEPTH, then BUILD_TREE.
MountedRecFromUrl ==
    \E depth \in UrlDepths \cup (2..MaxDepth) :
        /\ recMode = "tree"
        /\ treeDepth = depth
        /\ root = buildProofTree(depth, Null)
        /\ verification =
              [order |-> getVerificationOrder(buildProofTree(depth, Null)),
               currentIndex |-> 0, isRunning |-> FALSE, speed |-> 500]
        /\ ivcChain = Null

InitRec ==
    /\ MountedRec \/ MountedRecFromUrl
    /\ ivcLength = 5
    /\ badProofTarget = Null
    /\ verifyResult = Null
    /\ MerkleIdle
    /\ AccInit
    /\ PolyInit
    /\ CallIdle

\* the depth slider -> reducer, SET_DEPTH
SET_DEPTH ==
    /\ recMode = "tree"
    /\ \E depth \in 2..MaxDepth : treeDepth' = depth
    /\ UNCHANGED <<recMode, root, verification, ivcLength, ivcChain,
                   badProofTarget, verifyResult>>
    /\ UNCHANGED nonRecVars

\* the Build Tree button -> reducer, BUILD_TREE
BUILD_TREE ==
    /\ recMode = "tree"
    /\ BuildTree(treeDepth, badProofTarget)
    /\ UNCHANGED <<recMode, treeDepth, ivcLength, ivcChain, badProofTarget,
                   verifyResult>>
    /\ UNCHANGED nonRecVars

\* A slip in SET_VERIFICATION: resuming rewinds the cursor
SET_VERIFICATIONRewinding ==
    /\ recMode = "tree"
    /\ verification' = [verification EXCEPT
                           !.isRunning = ~verification.isRunning,
                           !.currentIndex =
                               IF verification.isRunning
                               THEN verification.currentIndex ELSE 0]
    /\ UNCHANGED <<recMode, treeDepth, root, ivcLength, ivcChain,
                   badProofTarget, verifyResult>>
    /\ UNCHANGED nonRecVars

\* the Auto / Pause button -> reducer, SET_VERIFICATION
SET_VERIFICATION ==
    /\ recMode = "tree"
    /\ verification' = [verification EXCEPT !.isRunning = ~verification.isRunning]
    /\ UNCHANGED <<recMode, treeDepth, root, ivcLength, ivcChain,
                   badProofTarget, verifyResult>>
    /\ UNCHANGED nonRecVars

\* cloneTree(n, targetId, newStatus)
RECURSIVE cloneTree(_, _, _)
cloneTree(n, targetId, newStatus) ==
    [n EXCEPT
        !.children = [c \in 1..Len(n.children) |->
                         cloneTree(n.children[c], targetId, newStatus)],
        !.status = IF n.id = targetId THEN newStatus ELSE n.status]

\* A slip in STEP_VERIFY: the cursor moves on as soon as a node is taken up
STEP_VERIFYMovingEarly ==
    IF root = Null THEN UNCHANGED <<root, verification>>
    ELSE IF verification.currentIndex >= Len(verification.order)
    THEN /\ verification' = [verification EXCEPT !.isRunning = FALSE]
         /\ UNCHANGED root
    ELSE LET nodeId == verification.order[verification.currentIndex + 1] IN
         \E allNodes \in {getAllNodes(root)} :
         \E node \in {MapGet(allNodes, nodeId)} :
            IF node = Null THEN UNCHANGED <<root, verification>>
            ELSE IF node.status = "pending"
            THEN /\ root' = cloneTree(root, nodeId, "verifying")
                 /\ verification' =
                       [verification EXCEPT
                           !.currentIndex = verification.currentIndex + 1]
            ELSE IF node.status = "verifying"
            THEN /\ root' = cloneTree(root, nodeId, verifyNode(node, allNodes))
                 /\ verification' =
                       [verification EXCEPT
                           !.currentIndex = verification.currentIndex + 1]
            ELSE UNCHANGED <<root, verification>>

\* A slip in STEP_VERIFY: past the last node the run is left switched on
STEP_VERIFYRunningOn ==
    IF root = Null THEN UNCHANGED <<root, verification>>
    ELSE IF verification.currentIndex >= Len(verification.order)
    THEN UNCHANGED <<root, verification>>
    ELSE LET nodeId == verification.order[verification.currentIndex + 1] IN
         \E allNodes \in {getAllNodes(root)} :
         \E node \in {MapGet(allNodes, nodeId)} :
            IF node = Null THEN UNCHANGED <<root, verification>>
            ELSE IF node.status = "pending"
            THEN /\ root' = cloneTree(root, nodeId, "verifying")
                 /\ UNCHANGED verification
            ELSE IF node.status = "verifying"
            THEN /\ root' = cloneTree(root, nodeId, verifyNode(node, allNodes))
                 /\ verification' =
                       [verification EXCEPT
                           !.currentIndex = verification.currentIndex + 1]
            ELSE UNCHANGED <<root, verification>>

\* reducer, STEP_VERIFY; allNodes and node are the constants of that name,
\* each computed once
STEP_VERIFY ==
    IF root = Null THEN UNCHANGED <<root, verification>>
    ELSE IF verification.currentIndex >= Len(verification.order)
    THEN /\ verification' = [verification EXCEPT !.isRunning = FALSE]
         /\ UNCHANGED root
    ELSE LET nodeId == verification.order[verification.currentIndex + 1] IN
         \E allNodes \in {getAllNodes(root)} :
         \E node \in {MapGet(allNodes, nodeId)} :
            IF node = Null THEN UNCHANGED <<root, verification>>
            ELSE IF node.status = "pending"
            THEN /\ root' = cloneTree(root, nodeId, "verifying")
                 /\ UNCHANGED verification
            ELSE IF node.status = "verifying"
            THEN /\ root' = cloneTree(root, nodeId, verifyNode(node, allNodes))
                 /\ verification' =
                       [verification EXCEPT
                           !.currentIndex = verification.currentIndex + 1]
            ELSE UNCHANGED <<root, verification>>

\* the Step button, disabled while the run is automatic
StepButton ==
    /\ recMode = "tree"
    /\ ~verification.isRunning
    /\ STEP_VERIFY
    /\ UNCHANGED <<recMode, treeDepth, ivcLength, ivcChain, badProofTarget,
                   verifyResult>>
    /\ UNCHANGED nonRecVars

\* a tick of the auto-verify interval, set while isRunning in tree mode
AutoVerifyTick ==
    /\ recMode = "tree"
    /\ verification.isRunning
    /\ STEP_VERIFY
    /\ UNCHANGED <<recMode, treeDepth, ivcLength, ivcChain, badProofTarget,
                   verifyResult>>
    /\ UNCHANGED nonRecVars

\* the Inject button: INJECT_BAD_PROOF with the typed text, then BUILD_TREE
InjectBadProof ==
    /\ recMode = "tree"
    /\ \E nodeId \in InjectInputs :
          /\ badProofTarget' = <<nodeId>>
          /\ BuildTree(treeDepth, <<nodeId>>)
    /\ UNCHANGED <<recMode, treeDepth, ivcLength, ivcChain, verifyResult>>
    /\ UNCHANGED nonRecVars

\* the Reset button -> reducer, RESET
RESET ==
    /\ IF recMode = "tree"
       THEN /\ root' = buildProofTree(treeDepth, Null)
            /\ badProofTarget' = Null
            /\ verification' =
                  [order |-> getVerificationOrder(buildProofTree(treeDepth, Null)),
                   currentIndex |-> 0, isRunning |-> FALSE, speed |-> 500]
            /\ UNCHANGED ivcChain
       ELSE /\ \E inputs \in [1..ivcLength -> IvcInputs] :
                  ivcChain' = buildIvcChain(ivcLength, inputs)
            /\ UNCHANGED <<root, badProofTarget, verification>>
    /\ UNCHANGED <<recMode, treeDepth, ivcLength, verifyResult>>
    /\ UNCHANGED nonRecVars

\* The demo in tree mode.  In IVC mode the tree controls are hidden and the
\* timer is off, so the tree is as the tree mode left it.
NextRec ==
    \/ SET_DEPTH
    \/ BUILD_TREE
    \/ SET_VERIFICATION
    \/ StepButton
    \/ AutoVerifyTick
    \/ InjectBadProof
    \/ RESET

SpecRec == InitRec /\ [][NextRec]_vars

(***************************************************************************)
(* Claims about the verification run (SpecRec)                             *)
(***************************************************************************)
AllNodes == getAllNodes(root)
StatusesPresent == {AllNodes[k].status : k \in 1..Len(AllNodes)}

\* C8: within one verification run (from a BUILD_TREE or RESET until the
\* next one), every node's status only moves forward along
\* pending -> verifying -> verified or failed: no step changes a node that
\* is already verified or failed, and no node returns to pending.
StatusStep ==
    root' # root =>
        LET before == getAllNodes(root)
            after == getAllNodes(root')
        IN \* a new run starts: every node pending, nothing processed
           \/ /\ \A k \in 1..Len(after) : after[k].status = "pending"
              /\ verification'.currentIndex = 0
           \* or the run goes on, on the same nodes
           \/ /\ Ids(after) = Ids(before)
              /\ \A k \in 1..Len(before) :
                    after[k].status # before[k].status =>
                        \/ /\ before[k].status = "pending"
                           /\ after[k].status = "verifying"
                        \/ /\ before[k].status = "verifying"
                           /\ after[k].status \in {"verified", "failed"}

C8_StatusMovesForward == [][StatusStep]_vars

\* A run under way after an injection: nodes of all four statuses at once.
C8_Witness ==
    /\ StatusesPresent = ProofStatuses
    /\ verification.currentIndex > 0
    /\ verification.currentIndex < Len(verification.order)

\* C9: in every state reachable during a verification run, a node whose
\* status is verified is not flagged invalid and all of its children are
\* verified.
C9_VerifiedNodeIsSound ==
    \A k \in 1..Len(AllNodes) :
        AllNodes[k].status = "verified" =>
            /\ ~AllNodes[k].isBadProof
            /\ \A c \in 1..Len(AllNodes[k].children) :
                  AllNodes[k].children[c].status = "verified"

\* The left subtree of the root has been verified, the right one has failed.
C9_Witness ==
    /\ Len(root.children) = 2
    /\ root.children[1].status = "verified"
    /\ Len(root.children[1].children) = 2
    /\ root.children[2].status = "failed"
    /\ ~root.children[2].isBadProof

\* C10: when a run has processed every node of the tree, a node is failed
\* exactly if it is the flagged node or has the flagged node among its
\* descendants, and verified otherwise; the root ends failed if and only if
\* badProofTarget names a node of the tree.
HasFlagged(node) ==
    \E k \in 1..Len(Traverse(<<node>>)) : Traverse(<<node>>)[k].isBadProof

RunComplete == verification.currentIndex >= Len(verification.order)

C10_FailedIffFlaggedBelow ==
    RunComplete =>
        /\ \A k \in 1..Len(AllNodes) :
              AllNodes[k].status =
                  IF HasFlagged(AllNodes[k]) THEN "failed" ELSE "verified"
        /\ root.status = "failed" <=>
              /\ badProofTarget # Null
              /\ \E k \in 1..Len(AllNodes) : AllNodes[k].id = badProofTarget[1]

\* A finished run of the depth-3 tree with its rightmost leaf flagged: the
\* leaf's ancestors failed, its sibling verified.
C10_Witness ==
    /\ RunComplete
    /\ badProofTarget = <<"node_3_7">>
    /\ Len(AllNodes) = 15
    /\ root.status = "failed"
    /\ MapGet(AllNodes, "node_3_7").status = "failed"
    /\ MapGet(AllNodes, "node_3_6").status = "verified"
    /\ root.children[1].status = "verified"

(***************************************************************************)
(* C4: after any sequence of ADD_ELEMENT, BATCH_ADD, REMOVE_ELEMENT and    *)
(* CLEAR from the initial state, accValue = g^(product of the primes in    *)
(* elements) mod n, and accValue = g when elements is empty.               *)
(***************************************************************************)
\* b^e mod n by e successive multiplications
RECURSIVE PowerByMultiplying(_, _, _)
PowerByMultiplying(b, e, n) ==
    IF e = 0 THEN 1 % n ELSE (b * PowerByMultiplying(b, e - 1, n)) % n

\* g^(p1 * ... * pk) mod n as ((g^p1)^p2 ...)^pk mod n
RECURSIVE PowerOfProduct(_, _, _, _)
PowerOfProduct(g, primes, k, n) ==
    IF k = 0 THEN g % n
    ELSE PowerByMultiplying(PowerOfProduct(g, primes, k - 1, n), primes[k], n)

C4_AccIsPowerOfProduct ==
    /\ accValue = PowerOfProduct(ACC_G, ElementPrimes, Len(elements), ACC_N)
    /\ elements = <<>> => accValue = ACC_G

\* A removal after a batch and a single addition leaves elements behind.
C4_Witness ==
    /\ Len(history) = 3
    /\ history[1].operation = "remove"
    /\ history[2].operation = "add"
    /\ history[3].operation = "batch-add"
    /\ Len(elements) = 2
    /\ accValue # ACC_G
    /\ C4_AccIsPowerOfProduct

(***************************************************************************)
(* The Merkle engine driven on its own: build, prove, tamper, verify       *)
(***************************************************************************)
LeafData == {"a", "b", ""}

LeafLists == UNION {[1..n -> LeafData] : n \in 0..MaxLeaves}

\* Hash values a tampered proof field may be replaced with: a hash foreign to
\* the tree, the root, and every leaf hash and sibling hash at hand.
TamperValues ==
    {HashLeaf("deadbeef", hashMode), tree.root.hash}
        \cup {tree.leaves[k].hash : k \in 1..Len(tree.leaves)}
        \cup {proof.siblings[k].hash : k \in 1..Len(proof.siblings)}

InitMerkle ==
    /\ leaves \in LeafLists
    /\ hashMode \in HashModes
    /\ tree = Null
    /\ isBuilding = FALSE
    /\ selectedLeafIndex = Null
    /\ proof = Null
    /\ proofVerified = Null
    /\ proofStep = 0
    /\ builds = <<>>
    /\ appliedBuild = 0
    /\ tampered = FALSE
    /\ ProofViewIdle
    /\ AccInit
    /\ PolyInit
    /\ RecIdle
    /\ CallIdle

\* await buildMerkleTree(leaves, mode)
MBuild ==
    /\ tree = Null
    /\ tree' = BuildMerkleTree(leaves, hashMode)
    /\ UNCHANGED <<leaves, hashMode, isBuilding, selectedLeafIndex, proof,
                   proofVerified, proofStep, builds, appliedBuild, tampered>>
    /\ UNCHANGED nonMerkleVars

\* generateProof(tree, leafIndex, mode), any index in or just out of range
MGenerateProof ==
    /\ tree # Null
    /\ \E leafIndex \in -1..Len(tree.leaves) :
          /\ proof' = GenerateProof(tree, leafIndex, hashMode)
          /\ selectedLeafIndex' = <<leafIndex>>
    /\ proofVerified' = Null
    /\ tampered' = FALSE
    /\ UNCHANGED <<leaves, hashMode, tree, isBuilding, proofStep, builds,
                   appliedBuild>>
    /\ UNCHANGED nonMerkleVars

\* { ...proof, leafHash: h } (k = 0) or the k-th sibling's hash replaced
MTamper ==
    /\ proof # Null
    /\ ~tampered
    /\ \E k \in 0..Len(proof.siblings), h \in TamperValues :
          IF k = 0
          THEN /\ h # proof.leafHash
               /\ proof' = [proof EXCEPT !.leafHash = h]
          ELSE /\ h # proof.siblings[k].hash
               /\ proof' = [proof EXCEPT !.siblings[k].hash = h]
    /\ tampered' = TRUE
    /\ proofVerified' = Null
    /\ UNCHANGED <<leaves, hashMode, tree, isBuilding, selectedLeafIndex,
                   proofStep, builds, appliedBuild>>
    /\ UNCHANGED nonMerkleVars

\* await verifyProof(proof, mode)
MVerify ==
    /\ proof # Null
    /\ proofVerified' = <<VerifyProof(proof, hashMode)>>
    /\ UNCHANGED <<leaves, hashMode, tree, isBuilding, selectedLeafIndex,
                   proof, proofStep, builds, appliedBuild, tampered>>
    /\ UNCHANGED nonMerkleVars

NextMerkle == MBuild \/ MGenerateProof \/ MTamper \/ MVerify

SpecMerkle == InitMerkle /\ [][NextMerkle]_vars

(***************************************************************************)
(* MerkleDemo: leaf and hash-mode changes and the rebuild effect            *)
(***************************************************************************)
initialLeaves == <<"Alice", "Bob", "Charlie", "David">>

\* Texts typed into the new-leaf field, and action.text.trim() of each
LeafInputs == {"x", " x", " "}
Trim(text) == IF text = " x" THEN "x" ELSE IF text = " " THEN "" ELSE text

\* Values an edited leaf field can take (the field emptied included)
LeafEdits == {"x", ""}

\* Leaf lists a shared URL can carry
UrlLeaves == {<<"x">>, <<"x", "y", "z">>}

\* if (buildAbortRef.current) buildAbortRef.current.abort(), with no effect
AbortNothing(bs) == bs

\* if (buildAbortRef.current) buildAbortRef.current.abort(): the ref holds the
\* controller of the build started last
AbortPrevious(bs) ==
    IF Len(bs) = 0 THEN bs
    ELSE [bs EXCEPT ![Len(bs)].aborted = TRUE]

\* The rebuild effect, run after a render in which leaves or hashMode changed:
\* abort the previous controller, dispatch SET_BUILDING true, start
\* buildMerkleTree(leaves, hashMode) with its own controller.
RebuildEffect(newLeaves, newMode) ==
    /\ builds' = Append(AbortPrevious(builds),
                        [leaves |-> newLeaves, mode |-> newMode,
                         aborted |-> FALSE, outcome |-> "pending"])
    /\ isBuilding' = TRUE

\* State after the mount: initialState, and the rebuild effect has run once.
InitMerkleDemo ==
    /\ leaves = initialLeaves
    /\ hashMode = "fnv1a"
    /\ tree = Null
    /\ isBuilding = TRUE
    /\ selectedLeafIndex = Null
    /\ proof = Null
    /\ proofVerified = Null
    /\ proofStep = 0
    /\ builds = <<[leaves |-> initialLeaves, mode |-> "fnv1a",
                   aborted |-> FALSE, outcome |-> "pending"]>>
    /\ appliedBuild = 0
    /\ tampered = FALSE
    /\ ProofViewIdle
    /\ AccInit
    /\ PolyInit
    /\ RecIdle
    /\ CallIdle

\* The cleanup of the progress-hash effect: `active = false` in the closure
\* of the run started by the previous render
Deactivate(runs) == [i \in 1..Len(runs) |-> [runs[i] EXCEPT !.active = FALSE]]

\* What follows a reducer case that sets proof to null: the case sets
\* proofProgressHash to null itself; the progress-hash effect, where it runs
\* again, deactivates the run in flight and dispatches null; the verify
\* effect dispatches SET_PROOF_VERIFIED null and cancels nothing.
ClearProofView ==
    /\ proofProgressHash' = Null
    /\ progressRuns' = Deactivate(progressRuns)
    /\ UNCHANGED verifyRuns

\* The URL effect of the mount: SET_LEAVES, then SET_HASH_MODE if the payload
\* names a mode; both land in one render, after which the rebuild effect runs.
SET_LEAVES ==
    /\ Len(builds) = 1
    /\ builds[1].outcome = "pending"
    /\ tree = Null
    /\ \E ls \in UrlLeaves, mode \in HashModes :
          \* a payload without hashMode leaves the mode as it is, as does one
          \* naming the current mode
          /\ leaves' = ls
          /\ hashMode' = mode
          /\ RebuildEffect(ls, mode)
    /\ proof' = Null
    /\ proofVerified' = Null
    /\ selectedLeafIndex' = Null
    /\ proofStep' = 0
    /\ UNCHANGED <<tree, appliedBuild, tampered>>
    /\ ClearProofView
    /\ UNCHANGED otherDemoVars

\* reducer, ADD_LEAF: a blank text returns the state as it is, and no effect
\* runs
ADD_LEAF ==
    /\ Len(leaves) < MaxLeaves
    /\ \E text \in LeafInputs :
          IF Trim(text) = ""
          THEN UNCHANGED <<leaves, builds, isBuilding, proof, proofVerified,
                           selectedLeafIndex, proofViewVars>>
          ELSE /\ Len(builds) < MaxBuilds
               /\ leaves' = Append(leaves, Trim(text))
               /\ RebuildEffect(Append(leaves, Trim(text)), hashMode)
               /\ proof' = Null
               /\ proofVerified' = Null
               /\ selectedLeafIndex' = Null
               /\ ClearProofView
    /\ UNCHANGED <<hashMode, tree, proofStep, appliedBuild, tampered>>
    /\ UNCHANGED otherDemoVars

\* state.leaves.filter((_, i) => i !== index)
RemoveAt(ls, index) ==
    [k \in 1..(Len(ls) - 1) |-> IF k <= index THEN ls[k] ELSE ls[k + 1]]

\* reducer, REMOVE_LEAF, from the Remove button of leaf `index`
REMOVE_LEAF ==
    /\ Len(builds) < MaxBuilds
    /\ \E index \in 0..(Len(leaves) - 1) :
          /\ leaves' = RemoveAt(leaves, index)
          /\ RebuildEffect(RemoveAt(leaves, index), hashMode)
    /\ proof' = Null
    /\ proofVerified' = Null
    /\ selectedLeafIndex' = Null
    /\ UNCHANGED <<hashMode, tree, proofStep, appliedBuild, tampered>>
    /\ ClearProofView
    /\ UNCHANGED otherDemoVars

\* reducer, EDIT_LEAF, from the text field of leaf `index`; map() makes a new
\* array, so the rebuild effect runs
EDIT_LEAF ==
    /\ Len(builds) < MaxBuilds
    /\ \E index \in 0..(Len(leaves) - 1), value \in LeafEdits :
          /\ leaves' = [leaves EXCEPT ![index + 1] = value]
          /\ RebuildEffect([leaves EXCEPT ![index + 1] = value], hashMode)
    /\ proof' = Null
    /\ proofVerified' = Null
    /\ UNCHANGED <<hashMode, tree, selectedLeafIndex, proofStep, appliedBuild,
                   tampered>>
    /\ ClearProofView
    /\ UNCHANGED otherDemoVars

\* reducer, SET_HASH_MODE; the rebuild effect runs only if the mode differs
SET_HASH_MODE ==
    /\ \E mode \in HashModes :
          /\ hashMode' = mode
          /\ IF mode = hashMode
             THEN UNCHANGED <<builds, isBuilding>>
             ELSE /\ Len(builds) < MaxBuilds
                  /\ RebuildEffect(leaves, mode)
    /\ proof' = Null
    /\ proofVerified' = Null
    /\ UNCHANGED <<leaves, tree, selectedLeafIndex, proofStep, appliedBuild,
                   tampered>>
    /\ ClearProofView
    /\ UNCHANGED otherDemoVars

\* buildMerkleTree(...).then(tree => ...) of build i
BuildFulfilled ==
    /\ \E i \in 1..Len(builds) :
          /\ builds[i].outcome = "pending"
          /\ IF ~builds[i].aborted
             THEN /\ tree' = BuildMerkleTree(builds[i].leaves, builds[i].mode)
                  /\ isBuilding' = FALSE
                  /\ appliedBuild' = i
                  /\ builds' = [builds EXCEPT ![i].outcome = "applied"]
             ELSE /\ builds' = [builds EXCEPT ![i].outcome = "discarded"]
                  /\ UNCHANGED <<tree, isBuilding, appliedBuild>>
    /\ UNCHANGED <<leaves, hashMode, selectedLeafIndex, proof, proofVerified,
                   proofStep, tampered>>
    /\ UNCHANGED nonMerkleVars

\* buildMerkleTree(...).catch(err => ...) of build i: crypto.subtle.digest
\* rejected
BuildRejected ==
    /\ \E i \in 1..Len(builds) :
          /\ builds[i].outcome = "pending"
          /\ builds[i].mode = "sha256"
          /\ builds[i].leaves # <<>>
          /\ IF ~builds[i].aborted
             THEN /\ isBuilding' = FALSE
                  /\ builds' = [builds EXCEPT ![i].outcome = "reported"]
             ELSE /\ builds' = [builds EXCEPT ![i].outcome = "discarded"]
                  /\ UNCHANGED isBuilding
    /\ UNCHANGED <<leaves, hashMode, tree, selectedLeafIndex, proof,
                   proofVerified, proofStep, appliedBuild, tampered>>
    /\ UNCHANGED nonMerkleVars

NextMerkleDemo ==
    \/ SET_LEAVES
    \/ ADD_LEAF
    \/ REMOVE_LEAF
    \/ EDIT_LEAF
    \/ SET_HASH_MODE
    \/ BuildFulfilled
    \/ BuildRejected

SpecMerkleDemo == InitMerkleDemo /\ [][NextMerkleDemo]_vars

(***************************************************************************)
(* C5: when the leaf list or hash mode changes while a build is in flight, *)
(* the superseded build's result is never applied (no SET_TREE, no error   *)
(* report), in whatever order builds complete; the tree stored once the    *)
(* latest build has delivered is the one built from the latest leaves and  *)
(* hash mode.                                                              *)
(***************************************************************************)
\* A build that settles while a later build exists leaves the state alone.
SupersededBuildIgnored ==
    \A i \in 1..Len(builds) :
        (/\ i < Len(builds)
         /\ builds[i].outcome = "pending"
         /\ builds'[i].outcome # "pending")
        => /\ builds'[i].outcome = "discarded"
           /\ tree' = tree
           /\ isBuilding' = isBuilding
           /\ appliedBuild' = appliedBuild

\* The latest build is the one for the current leaves and mode, and once it
\* has delivered, the stored tree is its tree and stays so.
LatestBuildStored ==
    builds # <<>> =>
        LET latest == builds[Len(builds)] IN
        /\ latest.leaves = leaves
        /\ latest.mode = hashMode
        /\ ~latest.aborted
        /\ latest.outcome = "applied" =>
              /\ tree = BuildMerkleTree(leaves, hashMode)
              /\ appliedBuild = Len(builds)
              /\ ~isBuilding

HonestProof == GenerateProof(tree, selectedLeafIndex[1], hashMode)

\* C1: for every non-empty leaf list and either hash mode, the proof that
\* generateProof returns for any valid leaf index verifies: verifyProof
\* yields true.
C1_GeneratedProofVerifies ==
    (proof # Null /\ ~tampered /\ proofVerified # Null)
        => proofVerified = <<TRUE>>

\* The sibling of the path node `up` levels above the leaf, tagged with the
\* side it sits on (up = 0 is the leaf itself).
SiblingAbove(path, up) ==
    LET node == path[Len(path) - up]
        parent == path[Len(path) - up - 1]
    IN IF parent.left.id = node.id
       THEN [hash |-> parent.right.hash, position |-> "right"]
       ELSE [hash |-> parent.left.hash, position |-> "left"]

\* C2: the siblings of a generated proof are ordered from leaf to root:
\* siblings[k] is the tagged hash of the sibling of the path node k levels
\* above the leaf, the last entry that of the root's other child.
C2_SiblingsLeafToRoot ==
    (proof # Null /\ ~tampered) =>
        LET path == findPath(tree.root, tree.leaves[proof.leafIndex + 1].id) IN
        /\ Len(proof.siblings) = Len(path) - 1
        /\ \A k \in 0..(Len(path) - 2) :
              proof.siblings[k + 1] = SiblingAbove(path, k)

\* C3: a proof from generateProof in which the leaf hash or one sibling hash
\* was replaced by a different hash value never verifies.
C3_TamperedProofRejected ==
    (tampered /\ proofVerified # Null) => proofVerified = <<FALSE>>

\* C3 witness: a proof that verifies as generated was tampered in one sibling
\* hash, verified again and rejected.
C3_Witness ==
    /\ tampered
    /\ proofVerified = <<FALSE>>
    /\ VerifyProof(HonestProof, hashMode)
    /\ proof.leafHash = HonestProof.leafHash
    /\ Len(proof.siblings) >= 1

(***************************************************************************)
(* Claims about getVerificationOrder (SpecRec)                             *)
(***************************************************************************)
PositionIn(seq, x) == CHOOSE k \in 1..Len(seq) : seq[k] = x

\* C11: getVerificationOrder returns every node id of the tree exactly once,
\* in order of non-increasing depth and left to right (increasing index)
\* within a depth, so every child comes before its parent and the root is
\* last.
C11_OrderIsBottomUp ==
    LET order == getVerificationOrder(root)
        nodes == getAllNodes(root)
    IN /\ Len(order) = Len(nodes)
       /\ \A k \in 1..Len(nodes) : \E j \in 1..Len(order) : order[j] = nodes[k].id
       /\ \A i, j \in 1..Len(order) : i # j => order[i] # order[j]
       /\ \A k \in 1..(Len(order) - 1) :
             LET a == MapGet(nodes, order[k])
                 b == MapGet(nodes, order[k + 1])
             IN \/ a.depth > b.depth
                \/ a.depth = b.depth /\ a.index < b.index
       /\ \A k \in 1..Len(nodes) : \A c \in 1..Len(nodes[k].children) :
             PositionIn(order, nodes[k].children[c].id)
                 < PositionIn(order, nodes[k].id)
       /\ order[Len(order)] = root.id

\* The order of the depth-3 tree, as the BUILD_TREE after an injection
\* stored it: leftmost leaf first, root last, fifteen ids.
C11_Witness ==
    /\ badProofTarget = <<"node_3_7">>
    /\ verification.order = getVerificationOrder(root)
    /\ Len(verification.order) = 15
    /\ verification.order[1] = "node_3_0"
    /\ verification.order[8] = "node_3_7"
    /\ verification.order[9] = "node_2_0"
    /\ verification.order[15] = "node_0_0"

(***************************************************************************)
(* IVC chain: foldIvcStep and the demo in IVC mode                         *)
(***************************************************************************)
MaxIvcLength == 5

\* A slip in foldIvcStep: the step is marked verified but not folded
MarkVerifiedOnly(currentStep) == [currentStep EXCEPT !.status = "verified"]

\* { ...currentStep, folded: true, status: 'verified' }
MarkFolded(currentStep) ==
    [currentStep EXCEPT !.folded = TRUE, !.status = "verified"]

\* A slip in foldIvcStep: the hash leaves out the step's input value
ChainedHashWithoutInput(prevHash, currentInput) == Fnv1a(prevHash \o "_")

\* fnv1a(`${prevHash}_${currentInput}`)
ChainedHash(prevHash, currentInput) ==
    Fnv1a(prevHash \o "_" \o ToString(currentInput))

\* A slip in foldIvcStep: a fold of a fully folded chain starts over
foldIvcStepStartingOver(chain) ==
    LET nextIndex == chain.currentFoldIndex + 1 IN
    IF nextIndex >= Len(chain.steps)
    THEN [chain EXCEPT !.currentFoldIndex = -1]
    ELSE [steps |-> [chain.steps EXCEPT
                        ![nextIndex + 1] = MarkFolded(chain.steps[nextIndex + 1])],
          currentFoldIndex |-> nextIndex]

\* foldIvcStep; steps[i] of the source is chain.steps[i + 1] here
foldIvcStep(chain) ==
    LET nextIndex == chain.currentFoldIndex + 1 IN
    IF nextIndex >= Len(chain.steps) THEN chain
    ELSE IF nextIndex + 1 \notin DOMAIN chain.steps THEN chain
    ELSE LET marked == [chain.steps EXCEPT
                           ![nextIndex + 1] = MarkFolded(chain.steps[nextIndex + 1])]
         IN [steps |->
                 IF nextIndex > 0
                 THEN [marked EXCEPT
                          ![nextIndex + 1].accumulatorHash =
                              ChainedHash(marked[nextIndex].accumulatorHash,
                                          marked[nextIndex + 1].inputValue)]
                 ELSE marked,
             currentFoldIndex |-> nextIndex]

\* chain lengths a shared link can carry below the slider's minimum
UrlIvcLengths == {0, 1, 2}
SliderIvcLengths == 3..MaxIvcLength

\* The mounted demo after the IVC mode button: the tree of the mount, no
\* chain yet
SwitchedToIvc ==
    /\ recMode = "ivc"
    /\ treeDepth = 3
    /\ root = buildProofTree(3, Null)
    /\ verification = [order |-> getVerificationOrder(buildProofTree(3, Null)),
                       currentIndex |-> 0, isRunning |-> FALSE, speed |-> 500]
    /\ ivcLength = 5
    /\ ivcChain = Null

\* The demo opened from a shared link in IVC mode: SET_MODE, SET_IVC_LENGTH,
\* BUILD_IVC after the BUILD_TREE of the mount
IvcFromUrl ==
    \E length \in UrlIvcLengths \cup SliderIvcLengths :
        /\ recMode = "ivc"
        /\ treeDepth = 3
        /\ root = buildProofTree(3, Null)
        /\ verification =
              [order |-> getVerificationOrder(buildProofTree(3, Null)),
               currentIndex |-> 0, isRunning |-> FALSE, speed |-> 500]
        /\ ivcLength = length
        /\ \E inputs \in [1..length -> IvcInputs] :
              ivcChain = buildIvcChain(length, inputs)

InitIvc ==
    /\ SwitchedToIvc \/ IvcFromUrl
    /\ badProofTarget = Null
    /\ verifyResult = Null
    /\ MerkleIdle
    /\ AccInit
    /\ PolyInit
    /\ CallIdle

\* Chain Length slider
SET_IVC_LENGTH ==
    /\ recMode = "ivc"
    /\ \E length \in SliderIvcLengths : ivcLength' = length
    /\ UNCHANGED <<recMode, treeDepth, root, verification, ivcChain,
                   badProofTarget, verifyResult>>
    /\ UNCHANGED nonRecVars

\* Build Chain button
BUILD_IVC ==
    /\ recMode = "ivc"
    /\ \E inputs \in [1..ivcLength -> IvcInputs] :
          ivcChain' = buildIvcChain(ivcLength, inputs)
    /\ UNCHANGED <<recMode, treeDepth, root, verification, ivcLength,
                   badProofTarget, verifyResult>>
    /\ UNCHANGED nonRecVars

\* reducer, FOLD_IVC
FOLD_IVC ==
    /\ recMode = "ivc"
    /\ ivcChain' = IF ivcChain = Null THEN ivcChain ELSE foldIvcStep(ivcChain)
    /\ UNCHANGED <<recMode, treeDepth, root, verification, ivcLength,
                   badProofTarget, verifyResult>>
    /\ UNCHANGED nonRecVars

\* Reset button in IVC mode
ResetIvc ==
    /\ recMode = "ivc"
    /\ RESET

NextIvc ==
    \/ SET_IVC_LENGTH
    \/ BUILD_IVC
    \/ FOLD_IVC
    \/ ResetIvc

SpecIvc == InitIvc /\ [][NextIvc]_vars

(***************************************************************************)
(* Claims about the IVC chain (SpecIvc)                                    *)
(***************************************************************************)
\* C12: after any number of folds of a freshly built chain, the steps are
\* folded strictly in index order: step i is folded and verified exactly
\* when i <= currentFoldIndex, every step beyond the cursor is still pending
\* and unfolded, and each fold advances the cursor by at most one.
FoldedUpToCursor ==
    ivcChain # Null =>
        /\ ivcChain.currentFoldIndex >= -1
        /\ ivcChain.currentFoldIndex <= Len(ivcChain.steps) - 1
        /\ \A k \in 1..Len(ivcChain.steps) :
              IF k - 1 <= ivcChain.currentFoldIndex
              THEN ivcChain.steps[k].folded /\ ivcChain.steps[k].status = "verified"
              ELSE ~ivcChain.steps[k].folded /\ ivcChain.steps[k].status = "pending"

CursorAdvancesByOne ==
    (ivcChain # Null /\ ivcChain' # ivcChain) =>
        \* a new chain: nothing folded
        \/ ivcChain'.currentFoldIndex = -1
        \* or one more step folded
        \/ ivcChain'.currentFoldIndex = ivcChain.currentFoldIndex + 1

C12_FoldedInIndexOrder == []FoldedUpToCursor /\ [][CursorAdvancesByOne]_vars

\* A chain of four steps with two of them folded.
C12_Witness ==
    /\ ivcChain # Null
    /\ Len(ivcChain.steps) = 4
    /\ ivcChain.currentFoldIndex = 1
    /\ ivcChain.steps[2].folded
    /\ ~ivcChain.steps[3].folded

\* C13: for every folded step k > 0 its accumulator hash is the hash of
\* (accumulator hash of step k-1 as it stands after step k-1 was folded,
\* input value of step k); folding never changes step 0's accumulator hash,
\* any step's input value, or the hash of a step that is not the one being
\* folded.
HashChainsPrevious ==
    ivcChain # Null =>
        \A k \in 2..Len(ivcChain.steps) :
            ivcChain.steps[k].folded =>
                ivcChain.steps[k].accumulatorHash =
                    Fnv1a(ivcChain.steps[k - 1].accumulatorHash \o "_"
                              \o ToString(ivcChain.steps[k].inputValue))

FoldKeepsTheRest ==
    (ivcChain # Null /\ ivcChain' # ivcChain
        /\ ivcChain'.currentFoldIndex # -1) =>
        /\ Len(ivcChain'.steps) = Len(ivcChain.steps)
        /\ ivcChain'.steps[1].accumulatorHash = ivcChain.steps[1].accumulatorHash
        /\ \A k \in 1..Len(ivcChain.steps) :
              /\ ivcChain'.steps[k].inputValue = ivcChain.steps[k].inputValue
              /\ k # ivcChain'.currentFoldIndex + 1 =>
                    ivcChain'.steps[k].accumulatorHash
                        = ivcChain.steps[k].accumulatorHash

C13_HashChain == []HashChainsPrevious /\ [][FoldKeepsTheRest]_vars

\* Three steps folded, with different inputs: the third hash chains the
\* second, which chains the first.
C13_Witness ==
    /\ ivcChain # Null
    /\ ivcChain.currentFoldIndex = 2
    /\ ivcChain.steps[2].inputValue # ivcChain.steps[3].inputValue
    /\ ivcChain.steps[3].accumulatorHash =
          "fnv1a(fnv1a(fnv1a(step_0_input_1)_100)_1)"

\* foldIvcStep applied n times
RECURSIVE FoldTimes(_, _)
FoldTimes(chain, n) ==
    IF n = 0 THEN chain ELSE FoldTimes(foldIvcStep(chain), n - 1)

\* C14: applying foldIvcStep length times to a chain of length steps leaves
\* currentFoldIndex = length - 1 with every step folded, and every further
\* fold returns the chain unchanged (same cursor, same steps): the fully
\* folded state is an idempotent terminal state.
C14_FullyFoldedIsTerminal ==
    ivcChain # Null =>
        LET length == Len(ivcChain.steps)
            folded == FoldTimes(ivcChain, length - (ivcChain.currentFoldIndex + 1))
        IN /\ folded.currentFoldIndex = length - 1
           /\ \A k \in 1..length : folded.steps[k].folded
           /\ foldIvcStep(folded) = folded
           /\ FoldTimes(folded, 2) = folded
           /\ ivcChain.currentFoldIndex = length - 1 =>
                 foldIvcStep(ivcChain) = ivcChain

\* A chain of MaxIvcLength steps that FOLD_IVC has folded to its end.
C14_Witness ==
    /\ ivcChain # Null
    /\ Len(ivcChain.steps) = MaxIvcLength
    /\ ivcChain.currentFoldIndex = MaxIvcLength - 1
    /\ \A k \in 1..MaxIvcLength : ivcChain.steps[k].folded

(***************************************************************************)
(* lib/math and demos/accumulator/logic: witnesses                         *)
(***************************************************************************)
\* BigInt %: the remainder takes the sign of the dividend
Rem(a, b) ==
    LET magnitude == (IF a < 0 THEN -a ELSE a) % (IF b < 0 THEN -b ELSE b) IN
    IF a < 0 THEN -magnitude ELSE magnitude

\* BigInt /: the quotient is rounded toward zero
Quot(a, b) ==
    LET magnitude == (IF a < 0 THEN -a ELSE a) \div (IF b < 0 THEN -b ELSE b) IN
    IF (a < 0) # (b < 0) THEN -magnitude ELSE magnitude

\* extendedGcd; the gcd it returns carries the sign the remainders leave
RECURSIVE extendedGcd(_, _)
extendedGcd(a, b) ==
    IF a = 0 THEN [gcd |-> b, x |-> 0, y |-> 1]
    ELSE LET result == extendedGcd(Rem(b, a), a) IN
         [gcd |-> result.gcd,
          x |-> result.y - Quot(b, a) * result.x,
          y |-> result.x]

\* The value that stands for `throw new Error('No modular inverse exists')`;
\* every value modInverse returns is >= 0
NoInverse == -1

\* A slip in modInverse: the coefficient is reduced but not made non-negative
modInverseSigned(a, mod) ==
    LET result == extendedGcd(Rem(Rem(a, mod) + mod, mod), mod) IN
    IF result.gcd # 1 THEN NoInverse ELSE Rem(result.x, mod)

modInverse(a, mod) ==
    LET result == extendedGcd(Rem(Rem(a, mod) + mod, mod), mod) IN
    IF result.gcd # 1 THEN NoInverse ELSE Rem(Rem(result.x, mod) + mod, mod)

\* A slip in modPowSigned: the exponent's sign is dropped without inverting
\* the base
modPowSignedNoInverse(base, exp, mod) ==
    IF exp >= 0 THEN ModPow(base, exp, mod) ELSE ModPow(base, -exp, mod)

\* modPowSigned; NoInverse when modInverse throws
modPowSigned(base, exp, mod) ==
    IF exp >= 0 THEN ModPow(base, exp, mod)
    ELSE IF modInverse(base, mod) = NoInverse THEN NoInverse
    ELSE ModPow(modInverse(base, mod), -exp, mod)

\* A slip in computeWitness: the target's prime is not left out
computeWitnessOfAll(primes, targetIndex, g, n) ==
    ModPow(g, ProductExcept(primes, -1, 0), n)

computeWitness(primes, targetIndex, g, n) ==
    ModPow(g, ProductExcept(primes, targetIndex, 0), n)

verifyWitness(w, element, acc, n) == ModPow(w, element, n) = acc

\* elements.includes(target)
Includes(primes, target) == \E k \in 1..Len(primes) : primes[k] = target

\* A slip in computeNonMembershipWitness: the gcd is not looked at
computeNonMembershipWitnessAnyGcd(primes, target, g, n) ==
    IF Includes(primes, target) THEN Null
    ELSE LET bezout == extendedGcd(target, ProductExcept(primes, -1, 0)) IN
         [witness |-> modPowSigned(g, bezout.x, n), b |-> bezout.y]

\* computeNonMembershipWitness: Null, or the pair; a witness of NoInverse
\* stands for the exception of modInverse
computeNonMembershipWitness(primes, target, g, n) ==
    IF Includes(primes, target) THEN Null
    ELSE LET bezout == extendedGcd(target, ProductExcept(primes, -1, 0)) IN
         IF bezout.gcd # 1 THEN Null
         ELSE [witness |-> modPowSigned(g, bezout.x, n), b |-> bezout.y]

\* verifyNonMembershipWitness, for a witness that is a number
verifyNonMembershipWitness(w, b, target, acc, g, n) ==
    /\ modPowSigned(acc, b, n) # NoInverse
    /\ (ModPow(w, target, n) * modPowSigned(acc, b, n)) % n = g % n

(***************************************************************************)
(* The accumulator functions called directly, as the tests call them       *)
(***************************************************************************)
\* Longest list of primes handed to a function
MaxMembers == 3

LibPrimes == {2, 3, 5, 7}
PrimeLists == UNION {[1..len -> LibPrimes] : len \in 0..MaxMembers}

\* Generators and moduli: the demo's (scaled) pair and two smaller ones, each
\* a generator coprime to a product of two twin primes
LibGroups == {[g |-> ACC_G, n |-> ACC_N], [g |-> 2, n |-> 5 * 7],
              [g |-> 17, n |-> 11 * 13]}

\* Elements and targets tried against a witness
LibElements == LibPrimes \cup {11, 13}

\* Accumulator values modulo n handed to batchAdd
LibAccValues(n) == {0, 1, 2, ACC_G, n - 1} \cap (0..(n - 1))

BatchAddCalls ==
    {[fn |-> "batchAdd", g |-> 0, n |-> n, acc |-> acc, primes |-> primes,
      index |-> 0, target |-> 0] :
        n \in {1} \cup {gn.n : gn \in LibGroups},
        acc \in 0..ACC_G, primes \in PrimeLists}

WitnessCalls ==
    {[fn |-> "witness", g |-> gn.g, n |-> gn.n,
      acc |-> batchAdd(gn.g, primes, gn.n), primes |-> primes,
      index |-> index, target |-> 0] :
        gn \in LibGroups, primes \in PrimeLists, index \in 0..(MaxMembers - 1)}

NonMembershipCalls ==
    {[fn |-> "nonMembership", g |-> gn.g, n |-> gn.n,
      acc |-> batchAdd(gn.g, primes, gn.n), primes |-> primes,
      index |-> 0, target |-> target] :
        gn \in LibGroups, primes \in PrimeLists, target \in LibElements}

InitAccLib ==
    /\ callArgs \in
          {c \in BatchAddCalls : c.acc \in LibAccValues(c.n)}
              \cup {c \in WitnessCalls : c.index < Len(c.primes)}
              \cup NonMembershipCalls
    /\ callResult = Null
    /\ MerkleIdle
    /\ AccInit
    /\ PolyInit
    /\ RecIdle

\* batchAdd(acc, primes, n)
CallBatchAdd ==
    /\ callArgs.fn = "batchAdd"
    /\ callResult = Null
    /\ callResult' = [value |-> batchAdd(callArgs.acc, callArgs.primes, callArgs.n)]
    /\ UNCHANGED callArgs
    /\ UNCHANGED nonCallVars

\* computeWitness(members, i, g, n), then verifyWitness of that witness
\* against each element
CallWitness ==
    /\ callArgs.fn = "witness"
    /\ callResult = Null
    /\ LET w == computeWitness(callArgs.primes, callArgs.index, callArgs.g,
                               callArgs.n)
       IN callResult' =
              [witness |-> w,
               verified |-> [e \in LibElements |->
                                verifyWitness(w, e, callArgs.acc, callArgs.n)]]
    /\ UNCHANGED callArgs
    /\ UNCHANGED nonCallVars

\* computeNonMembershipWitness(members, target, g, n), then
\* verifyNonMembershipWitness of the pair it returned
CallNonMembership ==
    /\ callArgs.fn = "nonMembership"
    /\ callResult = Null
    /\ LET result == computeNonMembershipWitness(callArgs.primes,
                         callArgs.target, callArgs.g, callArgs.n)
       IN callResult' =
              [result |-> result,
               verified |->
                   IF result = Null THEN Null
                   ELSE <<verifyNonMembershipWitness(result.witness, result.b,
                              callArgs.target, callArgs.acc, callArgs.g,
                              callArgs.n)>>]
    /\ UNCHANGED callArgs
    /\ UNCHANGED nonCallVars

NextAccLib ==
    \/ CallBatchAdd
    \/ CallWitness
    \/ CallNonMembership

SpecAccLib == InitAccLib /\ [][NextAccLib]_vars

(***************************************************************************)
(* Claims about the accumulator functions (SpecAccLib)                     *)
(***************************************************************************)
\* addElement applied to the primes at positions order[1], ..., order[k]
RECURSIVE AddEach(_, _, _, _, _)
AddEach(acc, primes, order, k, n) ==
    IF k = 0 THEN acc
    ELSE addElement(AddEach(acc, primes, order, k - 1, n), primes[order[k]], n)

\* C15: for every accumulator value acc, modulus n and list of primes,
\* batchAdd(acc, primes, n) equals the result of applying addElement one
\* prime at a time, for every permutation of the primes, and equals acc for
\* the empty list.
C15_BatchAddIsSequentialAdd ==
    (callArgs.fn = "batchAdd" /\ callResult # Null) =>
        /\ \A order \in Permutations(1..Len(callArgs.primes)) :
              callResult.value =
                  AddEach(callArgs.acc, callArgs.primes, order,
                          Len(callArgs.primes), callArgs.n)
        /\ callArgs.primes = <<>> => callResult.value = callArgs.acc

\* batchAdd of three different primes onto an accumulator value that is
\* neither 0 nor 1, under the demo's modulus.
C15_Witness ==
    /\ callArgs.fn = "batchAdd"
    /\ callResult # Null
    /\ callArgs.n = ACC_N
    /\ callArgs.acc = ACC_G
    /\ callArgs.primes = <<7, 2, 5>>
    /\ callResult.value # callArgs.acc

\* C16 as stated: for every list of member primes and every index i,
\* verifyWitness(computeWitness(members, i, g, n), members[i], acc, n) is
\* true where acc = g^(product of members) mod n, and verifying that same
\* witness against any other element returns false.
C16_WitnessVerifiesOnlyItsElement ==
    (callArgs.fn = "witness" /\ callResult # Null) =>
        LET element == callArgs.primes[callArgs.index + 1] IN
        /\ callArgs.acc = PowerOfProduct(callArgs.g, callArgs.primes,
                                         Len(callArgs.primes), callArgs.n)
        /\ callResult.verified[element]
        /\ \A other \in LibElements \ {element} : ~callResult.verified[other]

\* Whether d is a multiple of the multiplicative order of w modulo n, that
\* is, whether w^|d| = 1 (mod n); w is coprime to n
MultipleOfOrder(d, w, n) ==
    PowerByMultiplying(w, IF d < 0 THEN -d ELSE d, n) = 1 % n

\* C16 as amended: the witness verifies against members[i]; against another
\* element it verifies exactly when the two elements differ by a multiple
\* of the multiplicative order of the witness modulo n.
C16_WitnessVerifiesUpToOrder ==
    (callArgs.fn = "witness" /\ callResult # Null) =>
        LET element == callArgs.primes[callArgs.index + 1] IN
        /\ callArgs.acc = PowerOfProduct(callArgs.g, callArgs.primes,
                                         Len(callArgs.primes), callArgs.n)
        /\ callResult.verified[element]
        /\ \A other \in LibElements \ {element} :
              callResult.verified[other] <=>
                  MultipleOfOrder(other - element, callResult.witness,
                                  callArgs.n)

\* The witness of 5 in <<3, 5, 7>> under the demo's modulus: it verifies
\* against 5 and against no other element tried.
C16_Witness ==
    /\ callArgs.fn = "witness"
    /\ callResult # Null
    /\ callArgs.n = ACC_N
    /\ callArgs.primes = <<3, 5, 7>>
    /\ callArgs.index = 1
    /\ callResult.verified[5]
    /\ \A other \in LibElements \ {5} : ~callResult.verified[other]

\* C17: for every list of member primes (the empty list included) and every
\* prime target not in it, computeNonMembershipWitness returns a pair
\* (witness, b) for which verifyNonMembershipWitness(witness, b, target, acc,
\* g, n) is true with acc = g^(product of members) mod n, also when a Bezout
\* coefficient is negative; for a target that is a member it returns null.
C17_NonMembershipVerifies ==
    (callArgs.fn = "nonMembership" /\ callResult # Null) =>
        /\ callArgs.acc = PowerOfProduct(callArgs.g, callArgs.primes,
                                         Len(callArgs.primes), callArgs.n)
        /\ IF \E k \in 1..Len(callArgs.primes) :
                  callArgs.primes[k] = callArgs.target
           THEN callResult.result = Null
           ELSE /\ callResult.result # Null
                /\ callResult.result.witness # NoInverse
                /\ callResult.verified = <<TRUE>>

\* Target 11 against members <<3, 5, 7>>: 11 * (-19) + 105 * 2 = 1, so the
\* witness is a power of the inverse of g.
C17_Witness ==
    /\ callArgs.fn = "nonMembership"
    /\ callResult # Null
    /\ callArgs.n = ACC_N
    /\ callArgs.primes = <<3, 5, 7>>
    /\ callArgs.target = 11
    /\ extendedGcd(11, 105).x < 0
    /\ callResult.result.b = 2
    /\ callResult.verified = <<TRUE>>

(***************************************************************************)
(* The accumulator demo with its text inputs, witnesses and shared links   *)
(***************************************************************************)
\* History entries written in one run of the demo with typed input
MaxDemoOps == 2

\* A typed text is the sequence of its characters
Digits == <<"0", "1", "2", "3", "4", "5", "6", "7", "8", "9">>
IsDigit(c) == \E i \in 1..10 : Digits[i] = c
DigitValue(c) == (CHOOSE i \in 1..10 : Digits[i] = c) - 1

\* Leading white space removed
RECURSIVE TrimStart(_)
TrimStart(text) ==
    IF Len(text) > 0 /\ Head(text) = " " THEN TrimStart(Tail(text)) ELSE text

RECURSIVE TrimEnd(_)
TrimEnd(text) ==
    IF Len(text) > 0 /\ text[Len(text)] = " "
    THEN TrimEnd(SubSeq(text, 1, Len(text) - 1)) ELSE text

\* String.prototype.trim
TrimText(text) == TrimEnd(TrimStart(text))

\* The decimal digits text starts with, read as a number: <<value, count>>
RECURSIVE LeadingDigits(_, _, _)
LeadingDigits(text, value, count) ==
    IF Len(text) > 0 /\ IsDigit(Head(text))
    THEN LeadingDigits(Tail(text), value * 10 + DigitValue(Head(text)), count + 1)
    ELSE <<value, count>>

\* parseInt(text, 10): white space is skipped, a sign is read, then digits up
\* to the first character that is none; NaN when there is no digit
parseInt(text) ==
    LET start == TrimStart(text)
        negative == Len(start) > 0 /\ Head(start) = "-"
        signed == Len(start) > 0 /\ Head(start) \in {"-", "+"}
        digits == LeadingDigits(IF signed THEN Tail(start) ELSE start, 0, 0)
    IN IF digits[2] = 0 THEN NaN
       ELSE <<IF negative THEN -digits[1] ELSE digits[1]>>

\* Texts typed into the prime field and the non-member field, and the
\* comma-separated entries of the batch field
TypedTexts ==
    {<<>>, <<"3">>, <<"4">>, <<"a">>, <<"3", "a">>, <<" ", "3">>, <<"-", "3">>}
BatchTexts == UNION {[1..len -> TypedTexts] : len \in 1..MaxBatch}

\* state.batchPrimes.split(',').map(s => s.trim()).filter(s => s.length > 0)
primeStrings(entries) ==
    SelectSeq([k \in 1..Len(entries) |-> TrimText(entries[k])],
              LAMBDA s : Len(s) > 0)

\* reducer, BATCH_ADD
BATCH_ADD(primes) ==
    IF Len(primes) = 0
    THEN UNCHANGED <<elements, accValue, selectedIndex, witness, nonMembership,
                     history>>
    ELSE LET accAfter == batchAdd(accValue, primes, ACC_N) IN
         /\ elements' = elements \o
               [i \in 1..Len(primes) |->
                   [prime |-> primes[i],
                    label |-> "e" \o ToString(Len(elements) + i - 1)]]
         /\ accValue' = accAfter
         /\ witness' = Null
         /\ nonMembership' = Null
         /\ selectedIndex' = Null
         /\ history' = PushHistory("batch-add",
                          "Added " \o ToString(Len(primes)) \o " primes in batch",
                          accValue, accAfter)

\* handleAddPrime on the text of the prime field; callArgs keeps the text
handleAddPrime ==
    /\ Len(history) < MaxDemoOps
    /\ \E text \in TypedTexts :
          /\ callArgs' = [field |-> "prime", entries |-> <<text>>]
          /\ IF ~ValidPrimeInput(parseInt(text))
             THEN /\ errorMsg' = <<"Please enter a valid prime number">>
                  /\ UNCHANGED <<elements, accValue, selectedIndex, witness,
                                 nonMembership, history>>
             ELSE /\ ADD_ELEMENT(parseInt(text)[1])
                  /\ UNCHANGED errorMsg
    /\ UNCHANGED <<merkleVars, polyVars, recVars, callResult, proofViewVars>>

\* handleBatchAdd on the text of the batch field
handleBatchAdd ==
    /\ Len(history) < MaxDemoOps
    /\ \E entries \in BatchTexts :
          LET strs == primeStrings(entries) IN
          /\ callArgs' = [field |-> "batch", entries |-> entries]
          /\ IF \E k \in 1..Len(strs) : ~ValidPrimeInput(parseInt(strs[k]))
             THEN /\ errorMsg' = <<"Invalid prime">>
                  /\ UNCHANGED <<elements, accValue, selectedIndex, witness,
                                 nonMembership, history>>
             ELSE IF Len(strs) = 0
             THEN /\ errorMsg' = <<"Please enter at least one prime">>
                  /\ UNCHANGED <<elements, accValue, selectedIndex, witness,
                                 nonMembership, history>>
             ELSE /\ BATCH_ADD([k \in 1..Len(strs) |-> parseInt(strs[k])[1]])
                  /\ UNCHANGED errorMsg
    /\ UNCHANGED <<merkleVars, polyVars, recVars, callResult, proofViewVars>>

\* reducer, SET_NON_MEMBERSHIP_TARGET for a target that is not 0n
SET_NON_MEMBERSHIP_TARGET(target) ==
    nonMembership' = [target |-> target, witness |-> 0, b |-> 0,
                      verified |-> Null]

\* handleNonMemberSet on the text of the non-member field
handleNonMemberSet ==
    /\ \E text \in TypedTexts :
          /\ callArgs' = [field |-> "target", entries |-> <<text>>]
          /\ IF ~ValidPrimeInput(parseInt(text))
             THEN /\ errorMsg' = <<"Please enter a valid prime number">>
                  /\ UNCHANGED nonMembership
             ELSE /\ SET_NON_MEMBERSHIP_TARGET(parseInt(text)[1])
                  /\ UNCHANGED errorMsg
    /\ UNCHANGED <<elements, accValue, selectedIndex, witness, history>>
    /\ UNCHANGED <<merkleVars, polyVars, recVars, callResult, proofViewVars>>

\* Select button of an element, or a click on it in the canvas
SELECT_ELEMENT ==
    /\ \E index \in 0..(Len(elements) - 1) : selectedIndex' = <<index>>
    /\ witness' = Null
    /\ nonMembership' = Null
    /\ UNCHANGED <<elements, accValue, history, errorMsg>>
    /\ UNCHANGED nonAccVars

\* reducer, COMPUTE_WITNESS; the button shows while an element is selected
COMPUTE_WITNESS ==
    /\ selectedIndex # Null
    /\ IF selectedIndex[1] + 1 \notin 1..Len(elements)
       THEN UNCHANGED witness
       ELSE witness' =
               [elementIndex |-> selectedIndex[1],
                witness |-> computeWitness(ElementPrimes, selectedIndex[1],
                                           ACC_G, ACC_N),
                element |-> elements[selectedIndex[1] + 1].prime,
                accValue |-> accValue,
                verified |-> Null]
    /\ UNCHANGED <<elements, accValue, selectedIndex, nonMembership, history,
                   errorMsg>>
    /\ UNCHANGED nonAccVars

\* reducer, VERIFY_WITNESS; the button shows while a witness is there
VERIFY_WITNESS ==
    /\ selectedIndex # Null
    /\ witness # Null
    /\ LET verified == verifyWitness(witness.witness, witness.element,
                                     accValue, ACC_N)
       IN /\ witness' = [witness EXCEPT !.verified = <<verified>>]
          /\ history' = PushHistory("verify",
                            IF verified THEN "Witness verified"
                            ELSE "Witness verification failed",
                            accValue, accValue)
    /\ UNCHANGED <<elements, accValue, selectedIndex, nonMembership, errorMsg>>
    /\ UNCHANGED nonAccVars

\* reducer, COMPUTE_NON_MEMBERSHIP
COMPUTE_NON_MEMBERSHIP ==
    /\ IF nonMembership = Null THEN UNCHANGED nonMembership
       ELSE LET result == computeNonMembershipWitness(ElementPrimes,
                              nonMembership.target, ACC_G, ACC_N)
            IN IF result = Null THEN UNCHANGED nonMembership
               ELSE nonMembership' =
                       [nonMembership EXCEPT !.witness = result.witness,
                                             !.b = result.b,
                                             !.verified = Null]
    /\ UNCHANGED <<elements, accValue, selectedIndex, witness, history, errorMsg>>
    /\ UNCHANGED nonAccVars

\* reducer, VERIFY_NON_MEMBERSHIP; the button shows while a target is set
VERIFY_NON_MEMBERSHIP ==
    /\ nonMembership # Null
    /\ LET verified == verifyNonMembershipWitness(nonMembership.witness,
                           nonMembership.b, nonMembership.target, accValue,
                           ACC_G, ACC_N)
       IN /\ nonMembership' = [nonMembership EXCEPT !.verified = <<verified>>]
          /\ history' = PushHistory("verify",
                            IF verified THEN "Non-membership verified"
                            ELSE "Non-membership failed",
                            accValue, accValue)
    /\ UNCHANGED <<elements, accValue, selectedIndex, witness, errorMsg>>
    /\ UNCHANGED nonAccVars

\* Verify button of the witness, Verify button of the non-member panel,
\* Remove button of an element and Clear All, within the run's history budget
VerifyWitnessButton == Len(history) < MaxDemoOps /\ VERIFY_WITNESS
handleNonMemberVerify == Len(history) < MaxDemoOps /\ VERIFY_NON_MEMBERSHIP
RemoveButton == Len(history) < MaxDemoOps /\ REMOVE_ELEMENT
ClearButton == Len(history) < MaxDemoOps /\ CLEAR

\* The payload of a shared link: elements, selectedIndex, nonMemberTarget
UrlElements == {<<>>, <<3>>, <<4, 3>>}
UrlSelectedIndexes == {Null, <<0>>, <<1>>}
UrlNonMemberTargets == {Null, <<0>>, <<4>>, <<5>>}

\* The state after the link's elements went through isPrime and ADD_ELEMENT
RECURSIVE AddedFromUrl(_, _)
AddedFromUrl(state, primes) ==
    IF Len(primes) = 0 THEN state
    ELSE IF ~IsPrime(Head(primes)) THEN AddedFromUrl(state, Tail(primes))
    ELSE LET accAfter == addElement(state.accValue, Head(primes), ACC_N) IN
         AddedFromUrl(
             [elements |-> Append(state.elements,
                              [prime |-> Head(primes),
                               label |-> "e" \o ToString(Len(state.elements))]),
              accValue |-> accAfter,
              history |-> <<[operation |-> "add",
                             detail |-> "Added prime " \o ToString(Head(primes)),
                             accBefore |-> ToString(state.accValue),
                             accAfter |-> ToString(accAfter)]>> \o state.history],
             Tail(primes))

\* initialState, then the effect that reads the link
InitAccDemo ==
    /\ \E primes \in UrlElements, index \in UrlSelectedIndexes,
          target \in UrlNonMemberTargets :
          LET added == AddedFromUrl([elements |-> <<>>, accValue |-> ACC_G,
                                     history |-> <<>>], primes)
          IN /\ elements = added.elements
             /\ accValue = added.accValue
             /\ history = added.history
             /\ selectedIndex = index
             /\ nonMembership =
                   IF target = Null \/ target = <<0>> THEN Null
                   ELSE [target |-> target[1], witness |-> 0, b |-> 0,
                         verified |-> Null]
    /\ witness = Null
    /\ errorMsg = Null
    /\ MerkleIdle /\ PolyInit /\ RecIdle /\ CallIdle

NextAccDemo ==
    \/ handleAddPrime
    \/ handleBatchAdd
    \/ handleNonMemberSet
    \/ SELECT_ELEMENT
    \/ COMPUTE_WITNESS
    \/ VerifyWitnessButton
    \/ COMPUTE_NON_MEMBERSHIP
    \/ handleNonMemberVerify
    \/ RemoveButton
    \/ ClearButton
    \/ ErrorTimeout

SpecAccDemo == InitAccDemo /\ [][NextAccDemo]_vars

(***************************************************************************)
(* C18: invalid input is rejected                                          *)
(***************************************************************************)
\* A text is a numeral when, white space around it aside, it is an optional
\* sign followed by digits and nothing else
IsNumeral(text) ==
    LET s == TrimText(text)
        body == IF Len(s) > 0 /\ s[1] \in {"-", "+"} THEN Tail(s) ELSE s
    IN Len(body) > 0 /\ \A k \in 1..Len(body) : IsDigit(body[k])

\* The text is a number and that number is prime
DenotesPrime(text) == IsNumeral(text) /\ IsPrime(parseInt(text)[1])

\* The entries a field offered: the whole text of the prime and the
\* non-member field, the entries between commas that are not blank of the
\* batch field
OfferedEntries(args) ==
    IF args.field = "batch"
    THEN SelectSeq(args.entries, LAMBDA s : Len(TrimText(s)) > 0)
    ELSE args.entries

OfferedInvalid(args) ==
    \E k \in 1..Len(OfferedEntries(args)) : ~DenotesPrime(OfferedEntries(args)[k])

AllElementsPrime == \A k \in 1..Len(elements) : IsPrime(elements[k].prime)

InvalidInputRejected ==
    (callArgs' # callArgs /\ OfferedInvalid(callArgs'))
        => /\ errorMsg' # Null
           /\ elements' = elements
           /\ accValue' = accValue

\* C18: a text that is not a number, or whose number is not prime, offered
\* through the prime field, the batch field or the non-member field sets the
\* error message and leaves elements and accValue as they were, one invalid
\* entry being enough for a batch; and every element is prime in every
\* reachable state.
C18_InvalidInputRejected ==
    []AllElementsPrime /\ [][InvalidInputRejected]_vars

(***************************************************************************)
(* C19: a wrong witness that fails verification                            *)
(***************************************************************************)
\* A membership witness has been verified and the result is false
WrongWitnessSeen == witness # Null /\ witness.verified = <<FALSE>>

\* A membership witness that has been verified was found true
VerifiedWitnessIsTrue == ~WrongWitnessSeen

\* The witness on display is the honest one of the selected element
WitnessIsHonest ==
    witness # Null =>
        /\ selectedIndex = <<witness.elementIndex>>
        /\ witness.elementIndex + 1 \in 1..Len(elements)
        /\ witness.element = elements[witness.elementIndex + 1].prime
        /\ witness.witness = computeWitness(ElementPrimes, witness.elementIndex,
                                            ACC_G, ACC_N)
        /\ witness.accValue = accValue

\* A user who goes on using the demo: adds, selects, computes and verifies
\* whenever that is possible again and again
UserKeepsGoing ==
    /\ WF_vars(NextAccDemo)
    /\ SF_vars(handleAddPrime)
    /\ SF_vars(SELECT_ELEMENT)
    /\ SF_vars(COMPUTE_WITNESS)
    /\ SF_vars(VerifyWitnessButton)

SpecAccDemoUsed == SpecAccDemo /\ UserKeepsGoing

\* C19: the demo's actions lead to a state in which a membership witness has
\* been verified and the result is false.
C19_WrongWitnessIsSeen == <>WrongWitnessSeen

(***************************************************************************)
(* simulateKzgVerify called directly                                       *)
(***************************************************************************)
\* Longest coefficient list tried
MaxCoeffs == 2

LibCoefficients == {-1, 0, 2}
LibCoeffLists == UNION {[1..len -> LibCoefficients] : len \in 0..MaxCoeffs}
LibChallenges == {-1, 0, 2}

\* What a caller may hand over in place of the honest values: the commitment
\* of other coefficients or a string that is no hash; a value near or away
\* from p(z); the hash of another quotient or a string that is no hash
OtherCoeffLists == {<<>>, <<2>>, <<0, 2>>}
OfferedCommitments(coeffs) ==
    {simulateKzgCommit(c) : c \in OtherCoeffLists \cup {coeffs}}
        \cup {<<"badcommitment">>}
OfferedValues(coeffs, z) ==
    {Whole(polynomialEvaluate(coeffs, z)) + d : d \in -3..3}
        \cup {Whole(polynomialEvaluate(coeffs, z) + 1)}
OfferedProofHashes(coeffs, z) ==
    {simulateKzgProof(c, z).proofHash : c \in OtherCoeffLists \cup {coeffs}}
        \cup {<<"badproof">>}

\* The arguments of one call
InitKzgLib ==
    /\ \E coeffs \in LibCoeffLists, z \in LibChallenges :
       \E commitment \in OfferedCommitments(coeffs),
          pz \in OfferedValues(coeffs, z),
          proofHash \in OfferedProofHashes(coeffs, z) :
          callArgs = [commitment |-> commitment, z |-> z, pz |-> pz,
                      proofHash |-> proofHash, coeffs |-> coeffs]
    /\ callResult = Null
    /\ MerkleIdle /\ AccInit /\ PolyInit /\ RecIdle

CallKzgVerify ==
    /\ callResult = Null
    /\ callResult' = <<simulateKzgVerify(callArgs.commitment, callArgs.z,
                          callArgs.pz, callArgs.proofHash, callArgs.coeffs)>>
    /\ UNCHANGED callArgs
    /\ UNCHANGED nonCallVars

NextKzgLib == CallKzgVerify

SpecKzgLib == InitKzgLib /\ [][NextKzgLib]_vars

(***************************************************************************)
(* C20: simulateKzgVerify accepts the honest triple and rejects one        *)
(* replaced value                                                          *)
(***************************************************************************)
HonestCommitment == callArgs.commitment = simulateKzgCommit(callArgs.coeffs)
HonestValue ==
    callArgs.pz = Whole(simulateKzgProof(callArgs.coeffs, callArgs.z).revealedValue)
HonestProofHash ==
    callArgs.proofHash = simulateKzgProof(callArgs.coeffs, callArgs.z).proofHash

\* The revealed value handed over is further than 1e-6 from p(z)
ValueOutOfTolerance ==
    MathAbs(callArgs.pz
              - Whole(simulateKzgProof(callArgs.coeffs, callArgs.z).revealedValue))
        > Tolerance

ExactlyOneReplaced ==
    \/ ~HonestCommitment /\ HonestValue /\ HonestProofHash
    \/ HonestCommitment /\ ~HonestValue /\ HonestProofHash
    \/ HonestCommitment /\ HonestValue /\ ~HonestProofHash

\* C20, as claimed: the verification of the honest commitment, revealed value
\* and proof hash returns true, and it returns false when exactly one of the
\* three is replaced by a different value.
C20_RejectsAnyReplacedValue ==
    callResult # Null =>
        /\ (HonestCommitment /\ HonestValue /\ HonestProofHash)
              => callResult = <<TRUE>>
        /\ ExactlyOneReplaced => callResult = <<FALSE>>

\* C20, amended: the verification of the honest commitment, revealed value and
\* proof hash returns true; it returns false when the commitment alone or the
\* proof hash alone is replaced by a different value, and when the revealed
\* value alone is replaced by a value further than 1e-6 from p(z); a replaced
\* revealed value within 1e-6 of p(z) is accepted.
C20_RejectsOutOfTolerance ==
    callResult # Null =>
        /\ (HonestCommitment /\ HonestValue /\ HonestProofHash)
              => callResult = <<TRUE>>
        /\ (~HonestCommitment /\ HonestValue /\ HonestProofHash)
              => callResult = <<FALSE>>
        /\ (HonestCommitment /\ HonestValue /\ ~HonestProofHash)
              => callResult = <<FALSE>>
        /\ (HonestCommitment /\ HonestProofHash)
              => (callResult = <<FALSE>> <=> ValueOutOfTolerance)

\* C20: a call with the honest commitment and proof hash of two coefficients
\* and a revealed value that is not p(z) but within 1e-6 of it has returned true
C20_Witness ==
    /\ callResult # Null
    /\ HonestCommitment /\ HonestProofHash
    /\ ~HonestValue /\ ~ValueOutOfTolerance
    /\ callResult = <<TRUE>>
    /\ Len(callArgs.coeffs) = 2

(***************************************************************************)
(* The KZG flow with terms added and removed                               *)
(***************************************************************************)
\* A KZG button pressed while no handler is awaiting its hash: here the user
\* lets one handler finish before starting the next, and edits in between
CommitButton == kzgPending = <<>> /\ handleKzgCommit
RevealButton == kzgPending = <<>> /\ handleKzgReveal
VerifyButton == kzgPending = <<>> /\ handleKzgVerify

NextKzgTerms ==
    \/ SET_COEFF
    \/ SET_POLY_MODE
    \/ ADD_TERM
    \/ REMOVE_TERM
    \/ CommitButton
    \/ handleKzgChallenge
    \/ RevealButton
    \/ VerifyButton
    \/ KZG_RESET
    \/ KzgDispatch

SpecKzgTerms == InitKzg /\ [][NextKzgTerms]_vars

(***************************************************************************)
(* C21: the commitment binds the coefficients                              *)
(***************************************************************************)
\* The coefficient list whose serialisation kzg.commitment is the hash of
CommittedCoefficients == kzg.commitment[2][2]

\* This step is a press of Verify that started a verification
VerifyPressed ==
    /\ Len(kzgPending') = Len(kzgPending) + 1
    /\ kzgPending'[Len(kzgPending')].type = "KZG_VERIFY"

\* This step is the end of a verification, whose result is recorded
VerifyRecorded ==
    /\ Len(kzgPending) = 1
    /\ kzgPending' = <<>>
    /\ kzgPending[1].type = "KZG_VERIFY"

BindingStep ==
    /\ (VerifyPressed /\ coefficients # CommittedCoefficients)
          => kzgPending'[Len(kzgPending')].verified = FALSE
    /\ VerifyRecorded => kzg'.verified = <<kzgPending[1].verified>>

\* C21: when Verify is pressed while the coefficient list differs from the
\* list that was committed (a coefficient edited, a term added or removed, the
\* mode switched since Commit), the verification it starts yields false, and
\* the result recorded when it ends is that result.
C21_CommitmentIsBinding == [][BindingStep]_vars

\* C21: a verification has been recorded as false for coefficients that are
\* not the committed ones (a term was removed after Commit) although the
\* revealed value and the proof hash are those of the current coefficients
C21_Witness ==
    /\ kzg.verified = <<FALSE>>
    /\ kzg.commitment # Null /\ kzg.challengeZ # Null
    /\ kzg.revealedValue # Null
    /\ coefficients # CommittedCoefficients
    /\ Len(coefficients) = Len(CommittedCoefficients) - 1
    /\ kzg.revealedValue = <<polynomialEvaluate(coefficients, kzg.challengeZ[1])>>
    /\ kzg.proofHash = simulateKzgProof(coefficients, kzg.challengeZ[1]).proofHash

(***************************************************************************)
(* computeQuotientPolynomial and evaluatePolynomial called directly        *)
(***************************************************************************)
QuotientCoefficients == {-3, 1, 7}
QuotientCoeffLists ==
    UNION {[1..len -> QuotientCoefficients] : len \in 1..(MaxCoeffs + 1)}
QuotientChallenges == {-2, 0, 5, 19}
QuotientSamples == {-9, 0, 3, 20}

\* The arguments of one check of the identity
InitQuotient ==
    /\ \E coeffs \in QuotientCoeffLists, z \in QuotientChallenges,
          x \in QuotientSamples :
          callArgs = [coeffs |-> coeffs, z |-> z, x |-> x]
    /\ callResult = Null
    /\ MerkleIdle /\ AccInit /\ PolyInit /\ RecIdle

\* The test's loop body: both sides of the identity at x
CallQuotient ==
    /\ callResult = Null
    /\ LET pz == polynomialEvaluate(callArgs.coeffs, callArgs.z)
           quotient == computeQuotientPolynomial(callArgs.coeffs, callArgs.z)
           qx == polynomialEvaluate(quotient, callArgs.x)
       IN callResult' =
             [quotient |-> quotient,
              reconstructed |-> Plus(Times(Minus(callArgs.x, callArgs.z), qx), pz),
              original |-> polynomialEvaluate(callArgs.coeffs, callArgs.x)]
    /\ UNCHANGED callArgs
    /\ UNCHANGED nonCallVars

NextQuotient == CallQuotient

SpecQuotient == InitQuotient /\ [][NextQuotient]_vars

(***************************************************************************)
(* C22: p(x) = (x - z) * q(x) + p(z)                                       *)
(***************************************************************************)
\* |c[0]| + |c[1]| * m + |c[2]| * m^2 + ..., in exact arithmetic
RECURSIVE SumOfMagnitudes(_, _)
SumOfMagnitudes(coeffs, m) ==
    IF Len(coeffs) = 0 THEN 0
    ELSE MathAbs(Head(coeffs)) + m * SumOfMagnitudes(Tail(coeffs), m)

\* The same sum for the quotient: its coefficient j is at most
\* |c[j+1]| + |c[j+2]| * |z| + ... in magnitude
RECURSIVE QuotientMagnitudes(_, _, _)
QuotientMagnitudes(coeffs, mz, mx) ==
    IF Len(coeffs) <= 1 THEN 0
    ELSE SumOfMagnitudes(Tail(coeffs), mz)
            + mx * QuotientMagnitudes(Tail(coeffs), mz, mx)

\* No result of the computation reaches the magnitude from which doubles
\* round whole numbers
NothingRounded ==
    (MathAbs(callArgs.x) + MathAbs(callArgs.z))
          * QuotientMagnitudes(callArgs.coeffs, MathAbs(callArgs.z),
                               MathAbs(callArgs.x))
       + SumOfMagnitudes(callArgs.coeffs, MathAbs(callArgs.z))
       < 2 ^ MantissaBits

RECURSIVE WellFormedFrom(_, _, _, _)
WellFormedFrom(node, d, leafDepth, mode) ==
    /\ node.depth = d
    /\ IF "left" \in DOMAIN node \/ "right" \in DOMAIN node
       THEN /\ "left" \in DOMAIN node /\ "right" \in DOMAIN node
            /\ node.hash = HashInternal(node.left.hash, node.right.hash, mode)
            /\ WellFormedFrom(node.left, d + 1, leafDepth, mode)
            /\ WellFormedFrom(node.right, d + 1, leafDepth, mode)
       ELSE /\ node.hash = HashLeaf(node.data, mode)
            /\ d = leafDepth

\* C23: in a built tree the root has depth 0, every internal node has two
\* children one level deeper and the internal hash of their hashes in
\* left-right order, and every leaf, in the tree and in tree.leaves, has the
\* leaf hash of its own data and sits at depth tree.depth.
C23_TreeIsWellFormed ==
    tree # Null =>
        /\ WellFormedFrom(tree.root, 0, tree.depth, hashMode)
        /\ \A k \in 1..Len(tree.leaves) :
              /\ tree.leaves[k].hash = HashLeaf(tree.leaves[k].data, hashMode)
              /\ tree.leaves[k].depth = tree.depth
              /\ "left" \notin DOMAIN tree.leaves[k]

\* C23: a tree of depth 3 has been built, in which a node of the second level
\* is paired with itself
C23_Witness ==
    /\ tree # Null
    /\ tree.depth = 3
    /\ tree.root.right.left = tree.root.right.right
    /\ tree.root.left.left # tree.root.left.right

(***************************************************************************)
(* C24: every input leaf is hashed                                         *)
(***************************************************************************)
\* C24: a tree built from a non-empty list has in tree.leaves one leaf node
\* per input string, in input order and with that string as its data,
\* whatever the string, followed by one copy of the last leaf exactly when
\* the number of input strings is odd and greater than 1.
C24_EveryInputLeafHashed ==
    tree # Null =>
        /\ Len(tree.leaves) =
              Len(leaves) + (IF Len(leaves) > 1 /\ Len(leaves) % 2 = 1 THEN 1 ELSE 0)
        /\ \A i \in 1..Len(leaves) :
              /\ i <= Len(tree.leaves)
              /\ tree.leaves[i].data = leaves[i]
              /\ tree.leaves[i].hash = HashLeaf(leaves[i], hashMode)
        /\ Len(tree.leaves) > Len(leaves) =>
              tree.leaves[Len(tree.leaves)].data = leaves[Len(leaves)]

(***************************************************************************)
(* C25: generateProof and the index range                                  *)
(***************************************************************************)
\* The proof at hand is what generateProof returned for selectedLeafIndex
ProofAsGenerated == tree # Null /\ selectedLeafIndex # Null /\ ~tampered

\* C25: generateProof returns null for an index below 0 or not below
\* tree.leaves.length; for every other index it returns a proof, whose
\* leafIndex is the index asked for, whose leafHash is the hash of that leaf
\* and whose root is the hash of the tree's root.
C25_ProofOrNull ==
    ProofAsGenerated =>
        IF selectedLeafIndex[1] < 0 \/ selectedLeafIndex[1] >= Len(tree.leaves)
        THEN proof = Null
        ELSE /\ proof # Null
             /\ proof.leafIndex = selectedLeafIndex[1]
             /\ proof.leafHash = tree.leaves[selectedLeafIndex[1] + 1].hash
             /\ proof.root = tree.root.hash

\* C25: a proof has been generated for the last leaf node of a tree of depth 3,
\* the copy of the fifth leaf
C25_Witness ==
    /\ ProofAsGenerated
    /\ tree.depth = 3
    /\ selectedLeafIndex = <<Len(tree.leaves) - 1>>
    /\ proof # Null
    /\ proof.leafIndex = 5

(***************************************************************************)
(* generateProof and getProofPathNodes on a built tree                     *)
(***************************************************************************)
\* getProofPathNodes: tree.leaves[leafIndex] is undefined out of range
getProofPathNodes(t, leafIndex) ==
    IF leafIndex < 0 \/ leafIndex >= Len(t.leaves) THEN Null
    ELSE findPath(t.root, t.leaves[leafIndex + 1].id)

\* getProofPathNodes(tree, leafIndex), any index in or just out of range
MPathNodes ==
    /\ tree # Null
    /\ \E leafIndex \in -1..Len(tree.leaves) :
          /\ callArgs' = <<leafIndex>>
          /\ callResult' = getProofPathNodes(tree, leafIndex)
    /\ UNCHANGED nonCallVars

NextProofPath == MBuild \/ MGenerateProof \/ MPathNodes

SpecProofPath == InitMerkle /\ [][NextProofPath]_vars

(***************************************************************************)
(* C26: the length of a proof and of its path                              *)
(***************************************************************************)
\* C26: the proof generated for a valid leaf index has exactly tree.depth
\* siblings, and getProofPathNodes returns for a valid leaf index exactly
\* tree.depth + 1 nodes, the first being the root and the last that leaf.
C26_ProofAndPathLength ==
    /\ (ProofAsGenerated /\ proof # Null) => Len(proof.siblings) = tree.depth
    /\ (callArgs # Null /\ callArgs[1] >= 0 /\ callArgs[1] < Len(tree.leaves)) =>
          /\ callResult # Null
          /\ Len(callResult) = tree.depth + 1
          /\ callResult[1] = tree.root
          /\ callResult[Len(callResult)] = tree.leaves[callArgs[1] + 1]

\* C26: in a tree of depth 3 both a proof and a path have been computed for
\* leaves of the right half
C26_Witness ==
    /\ ProofAsGenerated /\ proof # Null
    /\ tree.depth = 3
    /\ Len(proof.siblings) = 3
    /\ selectedLeafIndex = <<5>>
    /\ callArgs = <<4>>
    /\ Len(callResult) = 4

(***************************************************************************)
(* C27: every change to the leaf list or hash mode starts a full rebuild;  *)
(* once changes stop, the demo eventually reaches a state with isBuilding  *)
(* false whose tree was built from exactly the current leaves and hash     *)
(* mode, and that tree is null only when the leaf list is empty.           *)
(*                                                                         *)
(* Once the build started last has delivered, no step but a further change *)
(* alters isBuilding or the tree, so the state the claim promises is the   *)
(* state at that moment: the claim is stated over those states.            *)
(***************************************************************************)
\* A render in which the rebuild effect ran
RebuildTriggered == Len(builds') > Len(builds)

\* A change of the leaf list or of the hash mode runs the rebuild effect.
ChangeTriggersRebuild ==
    (leaves' # leaves \/ hashMode' # hashMode) => RebuildTriggered

\* The build started last has fulfilled and its then-callback has run.
LatestDelivered ==
    builds # <<>> /\ builds[Len(builds)].outcome = "applied"

\* The tree on display is the one of the current leaves and mode.
RebuiltFromCurrent ==
    /\ ~isBuilding
    /\ tree = BuildMerkleTree(leaves, hashMode)

\* No tree is displayed only for an empty leaf list.
NullOnlyWhenEmpty == tree = Null => leaves = <<>>

C27_RebuildReachesCurrent ==
    LatestDelivered => RebuiltFromCurrent /\ NullOnlyWhenEmpty

(***************************************************************************)
(* C28: pausing and resuming a verification run (SET_VERIFICATION false,   *)
(* then true) changes neither any node's status nor currentIndex nor the   *)
(* order list: the run continues with the same node it stopped at, and no  *)
(* node that is already verified or failed is evaluated again.             *)
(***************************************************************************)
\* The id at the cursor, order[currentIndex] in the source's 0-based terms
CursorNodeId == verification.order[verification.currentIndex + 1]

\* Where the run stands is told by the tree and the cursor alone: the ids
\* before the cursor are done, the one at the cursor is pending or being
\* verified, the ones after it are untouched.
CursorIsProgress ==
    LET all == getAllNodes(root) IN
    \A i \in 1..Len(verification.order) :
        LET node == MapGet(all, verification.order[i]) IN
        /\ node # Null
        /\ i <= verification.currentIndex
              => node.status \in {"verified", "failed"}
        /\ i = verification.currentIndex + 1
              => node.status \in {"pending", "verifying"}
        /\ i > verification.currentIndex + 1 => node.status = "pending"

\* The Auto / Pause button leaves the tree, the cursor and the order alone.
PauseResumeFrame ==
    SET_VERIFICATION =>
        /\ verification'.isRunning = ~verification.isRunning
        /\ root' = root
        /\ verification'.currentIndex = verification.currentIndex
        /\ verification'.order = verification.order

\* A tick of the timer or a press of Step evaluates the node at the cursor
\* and no other, and that node was not yet verified or failed.
StepEvaluatesCursorNode ==
    ((AutoVerifyTick \/ StepButton) /\ root' # root) =>
        LET before == getAllNodes(root)
            after == getAllNodes(root')
        IN /\ Ids(after) = Ids(before)
           /\ \A k \in 1..Len(before) :
                 after[k].status # before[k].status =>
                     /\ before[k].id = CursorNodeId
                     /\ before[k].status \in {"pending", "verifying"}

C28_PauseResumeKeepsProgress ==
    []CursorIsProgress /\ [][PauseResumeFrame /\ StepEvaluatesCursorNode]_vars

\* An automatic run under way past its first nodes, the node at the cursor
\* half evaluated: the next tick settles that node.
C28_Witness ==
    /\ verification.isRunning
    /\ verification.currentIndex > 1
    /\ verification.currentIndex < Len(verification.order)
    /\ MapGet(getAllNodes(root), CursorNodeId).status = "verifying"

(***************************************************************************)
(* buildProofTree as a function of its arguments                           *)
(***************************************************************************)
\* Depths of the tests and of the slider; targets: none, the empty text, an
\* id no tree has, and every id of the deepest tree
TreeDepths == 0..MaxDepth
TreeTargets ==
    {Null, <<"">>, <<"node_0_1">>}
        \cup {<<NodeId(d, i)>> : d \in 0..MaxDepth, i \in 0..(2 ^ MaxDepth - 1)}

InitBuildTree ==
    /\ \E depth \in TreeDepths, target \in TreeTargets :
          callArgs = <<depth, target>>
    /\ callResult = Null
    /\ MerkleIdle
    /\ AccInit
    /\ PolyInit
    /\ RecIdle

\* const root = buildProofTree(depth, target)
CallBuildProofTree ==
    /\ callResult = Null
    /\ callResult' = buildProofTree(callArgs[1], callArgs[2])
    /\ UNCHANGED callArgs
    /\ UNCHANGED <<merkleVars, accVars, polyVars, recVars, proofViewVars>>

NextBuildTree == CallBuildProofTree

SpecBuildTree == InitBuildTree /\ [][NextBuildTree]_vars

(***************************************************************************)
(* C30: buildProofTree(depth, target) returns a complete binary tree of    *)
(* exactly depth+1 levels: every node at a level above the last has        *)
(* exactly two children one level deeper with indices 2i and 2i+1, nodes   *)
(* on the last level have none, every node starts pending, its curve is    *)
(* pallas at even depth and vesta at odd depth, and at most one node (the  *)
(* one whose id equals target) is flagged invalid.                         *)
(***************************************************************************)
NodeAsClaimed(node, depth, target) ==
    /\ node.status = "pending"
    /\ node.curve = IF node.depth % 2 = 0 THEN "pallas" ELSE "vesta"
    /\ node.isBadProof <=> target = <<node.id>>
    /\ IF node.depth < depth
       THEN /\ Len(node.children) = 2
            /\ node.children[1].depth = node.depth + 1
            /\ node.children[2].depth = node.depth + 1
            /\ node.children[1].index = 2 * node.index
            /\ node.children[2].index = 2 * node.index + 1
       ELSE /\ node.depth = depth
            /\ node.children = <<>>

C30_CompleteBinaryTree ==
    callResult # Null =>
        LET depth == callArgs[1]
            target == callArgs[2]
            nodes == Traverse(<<callResult>>)
        IN /\ callResult.depth = 0
           /\ callResult.index = 0
           /\ {nodes[k].depth : k \in 1..Len(nodes)} = 0..depth
           /\ \A d \in 0..depth :
                 {nodes[k].index : k \in {j \in 1..Len(nodes) : nodes[j].depth = d}}
                     = 0..(2 ^ d - 1)
           /\ Len(nodes) = 2 ^ (depth + 1) - 1
           /\ \A k \in 1..Len(nodes) : NodeAsClaimed(nodes[k], depth, target)
           /\ Cardinality({k \in 1..Len(nodes) : nodes[k].isBadProof}) <= 1

\* The depth-2 tree built with its last leaf as target: seven nodes, that
\* leaf flagged.
C30_Witness ==
    /\ callResult # Null
    /\ callArgs = <<2, <<"node_2_3">>>>
    /\ callResult.children[2].children[2].isBadProof

(***************************************************************************)
(* MerkleDemo: the proof display (Prove, Back, Next) and its two effects   *)
(***************************************************************************)
MathMin(a, b) == IF a < b THEN a ELSE b
MathMax(a, b) == IF a > b THEN a ELSE b

\* The runs of an effect that have not settled
Unsettled(runs) == SelectSeq(runs, LAMBDA r : r.outcome = "pending")

\* The progress-hash effect after a render in which proof, proofStep or
\* hashMode changed: the cleanup deactivates the previous run; without a
\* proof it dispatches null; with min(proofStep, siblings.length) = 0 the
\* loop awaits nothing and the dispatch of leafHash happens within the
\* effect; otherwise the run is in flight and the state keeps the hash the
\* reducer left.
ProgressEffect(newProof, newStep, newMode, reducerHash) ==
    LET earlier == Deactivate(Unsettled(progressRuns)) IN
    IF newProof = Null
    THEN /\ proofProgressHash' = Null
         /\ progressRuns' = earlier
    ELSE IF MathMin(newStep, Len(newProof.siblings)) = 0
    THEN /\ proofProgressHash' = <<newProof.leafHash>>
         /\ progressRuns' = earlier
    ELSE /\ proofProgressHash' = reducerHash
         /\ progressRuns' = Append(earlier,
                                   [proof |-> newProof, step |-> newStep,
                                    mode |-> newMode, active |-> TRUE,
                                    outcome |-> "pending"])

\* The verify effect after a render in which proof or hashMode changed.  A
\* call in flight is kept as the value its promise will fulfil with, which
\* the proof and the mode it was called with determine.
VerifyEffect(newProof, newMode) ==
    IF newProof = Null
    THEN /\ proofVerified' = Null
         /\ UNCHANGED verifyRuns
    ELSE /\ proofVerified' = Null
         /\ verifyRuns' = Append(verifyRuns, VerifyProof(newProof, newMode))

\* A proof and a step a shared URL carries: the proof of the second initial
\* leaf, at a step within the proof or beyond its end
UrlProof == GenerateProof(BuildMerkleTree(initialLeaves, "fnv1a"), 1, "fnv1a")
UrlProofSteps == {1, 3}

\* State after the mount without a URL payload
MountedPlain ==
    /\ proof = Null
    /\ selectedLeafIndex = Null
    /\ proofStep = 0
    /\ ProofViewIdle

\* State after the mount with a URL payload {proof, selectedLeafIndex,
\* proofStep}: the URL effect dispatches SET_PROOF_FROM_URL, the effects of
\* the first render dispatch SET_PROOF_VERIFIED null and
\* SET_PROOF_PROGRESS_HASH null after it, and the effects of the next render
\* start a verification and a progress run.
MountedFromUrlProof ==
    \E step \in UrlProofSteps :
        /\ proof = UrlProof
        /\ selectedLeafIndex = <<1>>
        /\ proofStep = step
        /\ proofProgressHash = Null
        /\ progressRuns = <<[proof |-> UrlProof, step |-> step, mode |-> "fnv1a",
                             active |-> TRUE, outcome |-> "pending"]>>
        /\ verifyRuns = <<VerifyProof(UrlProof, "fnv1a")>>

InitProofView ==
    /\ leaves = initialLeaves
    /\ hashMode = "fnv1a"
    /\ tree = Null
    /\ isBuilding = TRUE
    /\ proofVerified = Null
    /\ builds = <<[leaves |-> initialLeaves, mode |-> "fnv1a",
                   aborted |-> FALSE, outcome |-> "pending"]>>
    /\ appliedBuild = 0
    /\ tampered = FALSE
    /\ MountedPlain \/ MountedFromUrlProof
    /\ AccInit
    /\ PolyInit
    /\ RecIdle
    /\ CallIdle

\* The proof display is followed as long as at most one superseded
\* progress-hash run is in flight.
NoSupersededRun ==
    \A i \in 1..Len(progressRuns) : progressRuns[i].active

\* the Prove button of leaf `index` -> reducer, GENERATE_PROOF, and the two
\* effects the new proof sets off
GENERATE_PROOF ==
    /\ NoSupersededRun
    /\ Len(verifyRuns) < MaxRuns
    /\ \E leafIndex \in 0..(Len(leaves) - 1) :
          IF tree = Null
          THEN UNCHANGED <<selectedLeafIndex, proof, proofVerified, proofStep,
                           proofViewVars>>
          ELSE LET p == GenerateProof(tree, leafIndex, hashMode) IN
               /\ selectedLeafIndex' = <<leafIndex>>
               /\ proof' = p
               /\ proofStep' = 0
               /\ ProgressEffect(p, 0, hashMode,
                                 IF p = Null THEN Null ELSE <<p.leafHash>>)
               /\ VerifyEffect(p, hashMode)
    /\ UNCHANGED <<leaves, hashMode, tree, isBuilding, builds, appliedBuild,
                   tampered>>
    /\ UNCHANGED otherDemoVars

\* the Next button, disabled at the last step -> reducer, STEP_FORWARD
STEP_FORWARD ==
    /\ proof # Null
    /\ proofStep < Len(proof.siblings)
    /\ NoSupersededRun
    /\ proofStep' = MathMin(proofStep + 1, Len(proof.siblings))
    /\ ProgressEffect(proof, MathMin(proofStep + 1, Len(proof.siblings)),
                      hashMode, proofProgressHash)
    /\ UNCHANGED <<leaves, hashMode, tree, isBuilding, selectedLeafIndex, proof,
                   proofVerified, builds, appliedBuild, tampered, verifyRuns>>
    /\ UNCHANGED otherDemoVars

\* the Back button, disabled at step 0 -> reducer, STEP_BACK
STEP_BACK ==
    /\ proof # Null
    /\ proofStep # 0
    /\ NoSupersededRun
    /\ proofStep' = MathMax(proofStep - 1, 0)
    /\ ProgressEffect(proof, MathMax(proofStep - 1, 0), hashMode,
                      proofProgressHash)
    /\ UNCHANGED <<leaves, hashMode, tree, isBuilding, selectedLeafIndex, proof,
                   proofVerified, builds, appliedBuild, tampered, verifyRuns>>
    /\ UNCHANGED otherDemoVars

\* A slip in computeProgressHash: the result is dispatched whether or not the
\* run is still the active one
ProgressComputedUnguarded ==
    /\ \E i \in 1..Len(progressRuns) :
          LET run == progressRuns[i] IN
          /\ run.outcome = "pending"
          /\ proofProgressHash' =
                <<ReplaySiblings(run.proof.leafHash, run.proof.siblings, 1,
                                 MathMin(run.step, Len(run.proof.siblings)),
                                 run.mode)>>
          /\ progressRuns' =
                IF run.active
                THEN [progressRuns EXCEPT ![i].outcome = "stored"]
                ELSE RemoveAt(progressRuns, i - 1)
    /\ UNCHANGED <<merkleVars, verifyRuns>>
    /\ UNCHANGED otherDemoVars

\* computeProgressHash of run i gets past its last await:
\* if (active) dispatch SET_PROOF_PROGRESS_HASH
ProgressComputed ==
    /\ \E i \in 1..Len(progressRuns) :
          LET run == progressRuns[i] IN
          /\ run.outcome = "pending"
          /\ IF run.active
             THEN /\ proofProgressHash' =
                        <<ReplaySiblings(run.proof.leafHash, run.proof.siblings,
                                         1,
                                         MathMin(run.step, Len(run.proof.siblings)),
                                         run.mode)>>
                  /\ progressRuns' = [progressRuns EXCEPT ![i].outcome = "stored"]
             ELSE /\ progressRuns' = RemoveAt(progressRuns, i - 1)
                  /\ UNCHANGED proofProgressHash
    /\ UNCHANGED <<merkleVars, verifyRuns>>
    /\ UNCHANGED otherDemoVars

\* an await of hashInternal in run i rejects (crypto.subtle.digest): the
\* async function ends there, nothing is dispatched
ProgressRejected ==
    /\ \E i \in 1..Len(progressRuns) :
          /\ progressRuns[i].outcome = "pending"
          /\ progressRuns[i].mode = "sha256"
          /\ progressRuns' =
                IF progressRuns[i].active
                THEN [progressRuns EXCEPT ![i].outcome = "rejected"]
                ELSE RemoveAt(progressRuns, i - 1)
    /\ UNCHANGED <<merkleVars, proofProgressHash, verifyRuns>>
    /\ UNCHANGED otherDemoVars

\* verifyProof(...).then(verified => dispatch SET_PROOF_VERIFIED) of call i
ProofVerifiedArrives ==
    /\ \E i \in 1..Len(verifyRuns) :
          /\ proofVerified' = <<verifyRuns[i]>>
          /\ verifyRuns' = RemoveAt(verifyRuns, i - 1)
    /\ UNCHANGED <<leaves, hashMode, tree, isBuilding, selectedLeafIndex, proof,
                   proofStep, builds, appliedBuild, tampered, proofProgressHash,
                   progressRuns>>
    /\ UNCHANGED otherDemoVars

NextProofView ==
    \/ GENERATE_PROOF
    \/ STEP_FORWARD
    \/ STEP_BACK
    \/ ProgressComputed
    \/ ProgressRejected
    \/ ProofVerifiedArrives
    \/ SET_HASH_MODE
    \/ BuildFulfilled
    \/ BuildRejected

SpecProofView == InitProofView /\ [][NextProofView]_vars

(***************************************************************************)
(* C29: the partially composed hash shown while stepping through a proof   *)
(* is a function of (proof, proofStep, hashMode): whenever the computation *)
(* for the current values has completed, proofProgressHash equals the      *)
(* replay of the first min(proofStep, number of siblings) siblings         *)
(* starting from proof.leafHash, and a result computed for a superseded    *)
(* proof or step is never stored.                                          *)
(***************************************************************************)
\* The hash after the first k siblings of p, by the definition of the
\* replay: the k-th sibling is combined with the hash of the k - 1 before it
RECURSIVE ReplayFirst(_, _, _)
ReplayFirst(p, k, mode) ==
    IF k = 0 THEN p.leafHash
    ELSE IF p.siblings[k].position = "right"
    THEN HashInternal(ReplayFirst(p, k - 1, mode), p.siblings[k].hash, mode)
    ELSE HashInternal(p.siblings[k].hash, ReplayFirst(p, k - 1, mode), mode)

\* The computation for the current proof, step and mode is through: no run
\* started for them is still in flight or has broken off.
CurrentComputationCompleted ==
    \A i \in 1..Len(progressRuns) :
        progressRuns[i].active => progressRuns[i].outcome = "stored"

ProgressHashIsReplay ==
    (proof # Null /\ CurrentComputationCompleted) =>
        proofProgressHash =
            <<ReplayFirst(proof, MathMin(proofStep, Len(proof.siblings)), hashMode)>>

\* The run in flight that belongs to the current values is the active one,
\* and there is at most one.
ActiveRunIsCurrent ==
    \A i \in 1..Len(progressRuns) :
        progressRuns[i].active =>
            /\ i = Len(progressRuns)
            /\ progressRuns[i].proof = proof
            /\ progressRuns[i].step = proofStep
            /\ progressRuns[i].mode = hashMode

\* A run that settles after it was superseded leaves the hash alone.
SupersededResultDropped ==
    \A i \in 1..Len(progressRuns) :
        (/\ ~progressRuns[i].active
         /\ ProgressComputed \/ ProgressRejected
         /\ progressRuns' = RemoveAt(progressRuns, i - 1))
        => proofProgressHash' = proofProgressHash

C29_ProgressHashIsReplay ==
    /\ [](ProgressHashIsReplay /\ ActiveRunIsCurrent)
    /\ [][SupersededResultDropped]_vars

\* Next was pressed and Back before the first run had finished: the run for
\* step 1 is still in flight and superseded, the hash shown is the leaf hash
\* of step 0 again.
C29_Witness ==
    /\ proof # Null
    /\ proofStep = 0
    /\ Len(progressRuns) = 1
    /\ ~progressRuns[1].active
    /\ progressRuns[1].step = 1
    /\ progressRuns[1].proof = proof
    /\ proofProgressHash = <<proof.leafHash>>

(***************************************************************************)
(* C31: a verification run advances exactly one node per step: each        *)
(* STEP_VERIFY taken while nodes remain changes the status of exactly one  *)
(* node, the one at order[currentIndex] (pending to verifying, or          *)
(* verifying to its final status), leaves every other node's status, the   *)
(* order list and the bad-proof target unchanged, and increases            *)
(* currentIndex by one exactly when that node leaves verifying.            *)
(***************************************************************************)
NodesRemain == verification.currentIndex < Len(verification.order)

\* The positions, in traversal order, whose status differs between two trees
\* of the same nodes
ChangedNodes(before, after) ==
    {k \in 1..Len(before) : after[k].status # before[k].status}

OneNodePerStep ==
    ((AutoVerifyTick \/ StepButton) /\ NodesRemain) =>
        LET before == getAllNodes(root)
            after == getAllNodes(root')
            changed == ChangedNodes(before, after)
        IN /\ Ids(after) = Ids(before)
           /\ Cardinality(changed) = 1
           /\ \A k \in changed :
                 /\ before[k].id = CursorNodeId
                 /\ \/ /\ before[k].status = "pending"
                       /\ after[k].status = "verifying"
                       /\ verification'.currentIndex = verification.currentIndex
                    \/ /\ before[k].status = "verifying"
                       /\ after[k].status \in {"verified", "failed"}
                       /\ verification'.currentIndex =
                             verification.currentIndex + 1
           /\ verification'.order = verification.order
           /\ verification'.isRunning = verification.isRunning
           /\ badProofTarget' = badProofTarget

C31_OneNodePerStep == [][OneNodePerStep]_vars

\* A run stepped by hand through an injected tree: the flagged first leaf has
\* failed, the second node has been taken up and waits for its second step.
C31_Witness ==
    /\ ~verification.isRunning
    /\ verification.currentIndex = 1
    /\ NodesRemain
    /\ MapGet(getAllNodes(root), verification.order[1]).status = "failed"
    /\ MapGet(getAllNodes(root), CursorNodeId).status = "verifying"

(***************************************************************************)
(* modInverse as a function of its arguments                               *)
(***************************************************************************)
InitModInverse ==
    /\ \E a \in (-MaxModulus)..MaxModulus, mod \in 1..MaxModulus :
          callArgs = <<a, mod>>
    /\ callResult = Null
    /\ MerkleIdle
    /\ AccInit
    /\ PolyInit
    /\ RecIdle

\* modInverse(a, mod), the thrown error as NoInverse
CallModInverse ==
    /\ callResult = Null
    /\ callResult' = <<modInverse(callArgs[1], callArgs[2])>>
    /\ UNCHANGED callArgs
    /\ UNCHANGED <<merkleVars, accVars, polyVars, recVars, proofViewVars>>

NextModInverse == CallModInverse

SpecModInverse == InitModInverse /\ [][NextModInverse]_vars

(***************************************************************************)
(* C32: modInverse(a, m) returns a value r with 0 <= r < m and a*r         *)
(* congruent to 1 modulo m whenever gcd(a, m) = 1 (for negative a as       *)
(* well), and fails with the 'No modular inverse exists' error, never      *)
(* returning a value, whenever gcd(a, m) is not 1.                         *)
(***************************************************************************)
Divides(d, v) == v % d = 0

\* The greatest common divisor by its definition, for m >= 1
GreatestCommonDivisor(a, m) ==
    CHOOSE d \in 1..m :
        /\ Divides(d, a) /\ Divides(d, m)
        /\ \A e \in 1..m : (Divides(e, a) /\ Divides(e, m)) => e <= d

C32_InverseOrError ==
    callResult # Null =>
        LET a == callArgs[1]
            m == callArgs[2]
            r == callResult[1]
        IN IF GreatestCommonDivisor(a, m) = 1
           THEN /\ r # NoInverse
                /\ 0 <= r /\ r < m
                /\ Divides(m, a * r - 1)
           ELSE r = NoInverse

\* The inverse of -3 modulo 7 is 2: -3 * 2 = -6 = 1 - 7.
C32_Witness ==
    /\ callArgs = <<-3, 7>>
    /\ callResult = <<2>>

(***************************************************************************)
(* The accumulator's operation history over a long session                 *)
(***************************************************************************)
\* History entries during which the set is still edited; after them the
\* session goes on with the Verify button alone
MaxEdits == 2
SessionPrimes == {3, 5}
SessionTargets == {3, 7}

\* Add button with a prime typed in
AddInSession ==
    /\ Len(history) < MaxEdits
    /\ \E prime \in SessionPrimes : ADD_ELEMENT(prime)
    /\ UNCHANGED errorMsg
    /\ UNCHANGED nonAccVars

\* Batch Add button with "3, 5" typed in
BatchInSession ==
    /\ Len(history) < MaxEdits
    /\ BATCH_ADD(<<3, 5>>)
    /\ UNCHANGED errorMsg
    /\ UNCHANGED nonAccVars

\* Remove button of an element
RemoveInSession == Len(history) < MaxEdits /\ REMOVE_ELEMENT

\* Set button of the non-member field with a prime typed in
TargetInSession ==
    /\ Len(history) < MaxEdits
    /\ \E target \in SessionTargets : SET_NON_MEMBERSHIP_TARGET(target)
    /\ UNCHANGED <<elements, accValue, selectedIndex, witness, history, errorMsg>>
    /\ UNCHANGED nonAccVars

InitAccHistory == InitAcc

NextAccHistory ==
    \/ AddInSession
    \/ BatchInSession
    \/ RemoveInSession
    \/ TargetInSession
    \/ SELECT_ELEMENT
    \/ COMPUTE_WITNESS
    \/ VERIFY_WITNESS
    \/ COMPUTE_NON_MEMBERSHIP
    \/ handleNonMemberVerify

SpecAccHistory == InitAccHistory /\ [][NextAccHistory]_vars

\* A step that is an add, a remove or a batch-add changes the set; a step
\* that is a verify is a step of one of the two reducer cases
TrackedAction ==
    \/ elements' # elements
    \/ VERIFY_WITNESS
    \/ VERIFY_NON_MEMBERSHIP

\* The newest entry records the accumulator value before and after the step
NewestRecordsStep ==
    /\ history' # <<>>
    /\ history'[1].accBefore = ToString(accValue)
    /\ history'[1].accAfter = ToString(accValue')

\* Each entry's before-value is the after-value of the entry before it in
\* time, and the newest entry's after-value is the current value
HistoryChained ==
    /\ history # <<>> => history[1].accAfter = ToString(accValue)
    /\ \A k \in 1..(Len(history) - 1) :
          history[k].accBefore = history[k + 1].accAfter

\* The entries kept from the history before the step, all of them
AllKept == Tail(history') = history

\* The entries kept from the history before the step, the oldest dropped once
\* HistoryCap entries are there
NewestKept ==
    Tail(history') =
        IF Len(history) < HistoryCap THEN history
        ELSE SubSeq(history, 1, HistoryCap - 1)

\* C33 as stated: every add, remove, batch-add and verify puts one entry in
\* front of the history, which keeps one entry per action performed, each
\* recording the accumulator value before and after its action, so that the
\* entries chain.
C33_OneEntryPerAction ==
    /\ []HistoryChained
    /\ [][TrackedAction => NewestRecordsStep /\ AllKept]_vars

\* C33: every add, remove, batch-add and verify puts one entry in front of the
\* history, which keeps the HistoryCap newest entries, each recording the
\* accumulator value before and after its action, so that the entries kept
\* chain.
C33_NewestEntriesPerAction ==
    /\ []HistoryChained
    /\ [][TrackedAction => NewestRecordsStep /\ NewestKept]_vars

\* C33 witness: a session of more than HistoryCap actions, the add that began
\* it no longer in the history
C33_Witness ==
    /\ Len(history) = HistoryCap
    /\ elements # <<>>
    /\ \A k \in 1..HistoryCap : history[k].operation = "verify"

(***************************************************************************)
(* lib/hash.ts: hashInternal called directly on any two strings            *)
(***************************************************************************)
\* Characters of the strings handed over
MaxHashLen == 3
HashChars == {"a", "b"}

RECURSIVE StringsUpTo(_)
StringsUpTo(len) ==
    IF len = 0 THEN {""}
    ELSE StringsUpTo(len - 1) \cup
         {s \o c : s \in StringsUpTo(len - 1), c \in HashChars}

\* A slip in hashInternal: the shorter of the two strings is put first
hashInternalSorted(left, right, mode) ==
    LET first == IF Len(left) <= Len(right) THEN left ELSE right
        second == IF Len(left) <= Len(right) THEN right ELSE left
        prefixed == "\\x01" \o first \o second
    IN IF mode = "sha256" THEN Sha256(prefixed) ELSE Fnv1a(prefixed)

\* hashInternal on strings as they are given: the digest of the mode over
\* '\x01' + left + right, both digests taken to be collision-free
hashInternal(left, right, mode) ==
    LET prefixed == "\\x01" \o left \o right
    IN IF mode = "sha256" THEN Sha256(prefixed) ELSE Fnv1a(prefixed)

InitHashInternal ==
    /\ callArgs \in [left : StringsUpTo(MaxHashLen),
                     right : StringsUpTo(MaxHashLen),
                     mode : HashModes]
    /\ callResult = Null
    /\ MerkleIdle /\ AccInit /\ PolyInit /\ RecIdle

\* hashInternal(left, right, mode) and hashInternal(right, left, mode)
CallHashInternal ==
    /\ callResult = Null
    /\ callResult' =
          [ordered |-> hashInternal(callArgs.left, callArgs.right, callArgs.mode),
           swapped |-> hashInternal(callArgs.right, callArgs.left, callArgs.mode)]
    /\ UNCHANGED callArgs
    /\ UNCHANGED <<merkleVars, accVars, polyVars, recVars, proofViewVars>>

NextHashInternal == CallHashInternal

SpecHashInternal == InitHashInternal /\ [][NextHashInternal]_vars

\* C34 as stated: for any two different strings left and right, of any
\* lengths, hashInternal(left, right) differs from hashInternal(right, left).
C34_OrderDependent ==
    callResult # Null /\ callArgs.left # callArgs.right =>
        callResult.ordered # callResult.swapped

\* C34: hashInternal(left, right) differs from hashInternal(right, left)
\* exactly when left + right differs from right + left, which any two
\* different strings of the same length do.
C34_OrderDependentUnlessCommuting ==
    callResult # Null =>
        /\ callResult.ordered # callResult.swapped <=>
              callArgs.left \o callArgs.right # callArgs.right \o callArgs.left
        /\ callArgs.left # callArgs.right
              /\ Len(callArgs.left) = Len(callArgs.right) =>
                  callResult.ordered # callResult.swapped

\* C34 witness: two different strings of different lengths hashed both ways,
\* with different results
C34_Witness ==
    /\ callResult # Null
    /\ callArgs.left = "ab"
    /\ callArgs.right = "a"
    /\ callResult.ordered # callResult.swapped

(***************************************************************************)
(* The automatic verification run with its timer                           *)
(***************************************************************************)
\* The tree as BUILD_TREE left it, for a depth of the link or the slider and
\* with or without an injected bad proof
InitAutoRun ==
    /\ \E depth \in UrlDepths \cup (2..MaxDepth),
          target \in {Null} \cup {<<id>> : id \in InjectInputs} :
          /\ treeDepth = depth
          /\ badProofTarget = target
          /\ root = buildProofTree(depth, target)
          /\ verification =
                [order |-> getVerificationOrder(buildProofTree(depth, target)),
                 currentIndex |-> 0, isRunning |-> FALSE, speed |-> 500]
    /\ recMode = "tree"
    /\ ivcChain = Null
    /\ ivcLength = 5
    /\ verifyResult = Null
    /\ MerkleIdle /\ AccInit /\ PolyInit /\ CallIdle

\* The run with its Auto / Pause and Step buttons, the tree left as built
NextAutoRun ==
    \/ SET_VERIFICATION
    \/ StepButton
    \/ AutoVerifyTick

\* setInterval keeps dispatching STEP_VERIFY while the run is switched on
TimerFires == WF_vars(AutoVerifyTick)

SpecAutoRun == InitAutoRun /\ [][NextAutoRun]_vars /\ TimerFires

\* N, the number of nodes of the tree
NodeCount == Len(getAllNodes(root))

\* STEP_VERIFY steps the run has behind it: two for each id before the cursor
\* and one for the node at the cursor once it is being verified
StepsDone ==
    2 * verification.currentIndex +
        (IF NodesRemain
               /\ MapGet(getAllNodes(root), CursorNodeId).status = "verifying"
         THEN 1 ELSE 0)

AllSettled ==
    LET allNodes == getAllNodes(root) IN
    \A k \in 1..Len(allNodes) : allNodes[k].status \in {"verified", "failed"}

\* The order holds every node, and the nodes are all settled exactly when 2N
\* steps are done
SettledAfterTwoNSteps ==
    /\ Len(verification.order) = NodeCount
    /\ StepsDone <= 2 * NodeCount
    /\ AllSettled <=> StepsDone = 2 * NodeCount

\* A STEP_VERIFY before the 2N-th is done is one step more and leaves the run
\* switched as it is
StepCounts ==
    ((AutoVerifyTick \/ StepButton) /\ StepsDone < 2 * NodeCount) =>
        /\ StepsDone' = StepsDone + 1
        /\ verification'.isRunning = verification.isRunning

\* A STEP_VERIFY after the 2N-th switches the run off and changes neither a
\* node nor the cursor
StepAfterEndStops ==
    ((AutoVerifyTick \/ StepButton) /\ StepsDone = 2 * NodeCount) =>
        /\ ~verification'.isRunning
        /\ root' = root
        /\ verification'.currentIndex = verification.currentIndex

\* C35: an automatic run terminates: on a tree of N nodes just built no step
\* is done, each STEP_VERIFY is one step of 2N, after which every node is
\* verified or failed; the step
\* after those switches isRunning off and a later one changes no node and
\* does not move the cursor; with the timer firing, a run switched on is
\* switched off again.
C35_AutoRunTerminates ==
    /\ StepsDone = 0
    /\ []SettledAfterTwoNSteps
    /\ [][StepCounts /\ StepAfterEndStops]_vars
    /\ (verification.isRunning ~> ~verification.isRunning)

\* C35 witness: a run over a tree of more than one node that has come to its
\* end: every node settled, one of them failed, the run switched off
C35_Witness ==
    /\ NodeCount > 1
    /\ AllSettled
    /\ StepsDone = 2 * NodeCount
    /\ ~verification.isRunning
    /\ root.status = "failed"

(***************************************************************************)
(* The non-member panel of the accumulator demo opened from a shared link  *)
(***************************************************************************)
\* The link's elements go through isPrime; its nonMemberTarget is taken as it
\* is, any number but 0
LinkElements == {<<>>, <<2>>, <<3>>, <<2, 3>>, <<3, 5>>}
LinkTargets == {-4, -2, 1, 3, 4, 5, 6, 9}

InitNonMember ==
    /\ \E primes \in LinkElements, target \in LinkTargets :
          LET added == AddedFromUrl([elements |-> <<>>, accValue |-> ACC_G,
                                     history |-> <<>>], primes)
          IN /\ elements = added.elements
             /\ accValue = added.accValue
             /\ history = added.history
             /\ nonMembership = [target |-> target, witness |-> 0, b |-> 0,
                                 verified |-> Null]
    /\ selectedIndex = Null
    /\ witness = Null
    /\ errorMsg = Null
    /\ MerkleIdle /\ PolyInit /\ RecIdle /\ CallIdle

\* History entries of a visit, the link's elements included
MaxPanelOps == 4

\* Verify pressed while the panel shows no result
VerifyNonMember ==
    /\ Len(history) < MaxPanelOps
    /\ nonMembership # Null
    /\ nonMembership.verified = Null
    /\ VERIFY_NON_MEMBERSHIP

NextNonMember ==
    \/ TargetInSession
    \/ COMPUTE_NON_MEMBERSHIP
    \/ VerifyNonMember
    \/ AddInSession
    \/ BatchInSession
    \/ RemoveInSession
    \/ ClearButton
    \/ SELECT_ELEMENT

SpecNonMember == InitNonMember /\ [][NextNonMember]_vars

\* The product of the members, 1 for the empty set
MemberProduct == ProductExcept(ElementPrimes, -1, 0)

\* gcd(target, product of members) is not 1
NonUnitGcd ==
    /\ nonMembership # Null
    /\ GreatestCommonDivisor(nonMembership.target, MemberProduct) # 1

\* computeNonMembershipWitness returns null for a non-unit gcd: no pair, and
\* no exception either
NullOnNonUnitGcd ==
    NonUnitGcd =>
        computeNonMembershipWitness(ElementPrimes, nonMembership.target,
                                    ACC_G, ACC_N) = Null

\* C36: whenever gcd(target, product of members) is not 1,
\* computeNonMembershipWitness returns null, and no step that changes the
\* state is a COMPUTE_NON_MEMBERSHIP taken in such a state.
C36_NonUnitGcdIsHardFailure ==
    /\ []NullOnNonUnitGcd
    /\ [][NonUnitGcd => ~COMPUTE_NON_MEMBERSHIP]_vars

\* C36 witness: a target that is no member and shares a factor with the
\* product of the members, the panel still without a witness
C36_Witness ==
    /\ NonUnitGcd
    /\ ~Includes(ElementPrimes, nonMembership.target)
    /\ nonMembership.witness = 0
    /\ nonMembership.b = 0
    /\ nonMembership.verified = <<FALSE>>

(***************************************************************************)
(* Claims about the verification result on display (SpecProofView)         *)
(***************************************************************************)
\* C37: proofVerified refers to the proof currently held: it is non-null only
\* while a proof is present, and then it is the result of verifying that
\* proof under the current hash mode, whatever verification completes late.
C37_ProofVerifiedIsCurrent ==
    proofVerified # Null =>
        /\ proof # Null
        /\ proofVerified = <<VerifyProof(proof, hashMode)>>

(***************************************************************************)
(* Claims about the fields of the KZG state (SpecKzgTerms)                 *)
(***************************************************************************)
\* C38: the populated fields agree with currentStep: the commitment is set
\* exactly when currentStep >= 1, the challenge point exactly when
\* currentStep >= 2, the revealed value, quotient and proof hash exactly when
\* currentStep >= 3, and the verification result exactly when currentStep = 4.
C38_FieldsAgreeWithStep ==
    /\ kzg.commitment # Null <=> kzg.currentStep >= 1
    /\ kzg.challengeZ # Null <=> kzg.currentStep >= 2
    /\ kzg.revealedValue # Null <=> kzg.currentStep >= 3
    /\ kzg.quotientPoly # Null <=> kzg.currentStep >= 3
    /\ kzg.proofHash # Null <=> kzg.currentStep >= 3
    /\ kzg.verified # Null <=> kzg.currentStep = 4

(***************************************************************************)
(* Claims about the non-member panel (SpecNonMember)                       *)
(***************************************************************************)
\* v raised to |e| when e has the given sign, 1 otherwise
PowerOnSide(v, e, negative) ==
    IF (e < 0) = negative THEN ModPow(v, IF e < 0 THEN -e ELSE e, ACC_N) ELSE 1

\* w^target * acc^b = g (mod n) for w and acc that have inverses modulo n, a
\* power with a negative exponent taken to the other side
SatisfiesNonMembership(w, b, target, acc) ==
    (PowerOnSide(w, target, FALSE) * PowerOnSide(acc, b, FALSE)) % ACC_N =
        (((ACC_G * PowerOnSide(w, target, TRUE)) % ACC_N)
            * PowerOnSide(acc, b, TRUE)) % ACC_N

HasInverse(v) == GreatestCommonDivisor(v, ACC_N) = 1

\* C39: whenever nonMembership.verified is true, the target is not an element
\* of the current set and the stored (witness, b) satisfies
\* witness^target * accValue^b = g (mod n) for the current accValue.
C39_NoFalseNonMembership ==
    (nonMembership # Null /\ nonMembership.verified = <<TRUE>>) =>
        /\ ~Includes(ElementPrimes, nonMembership.target)
        /\ HasInverse(nonMembership.witness)
        /\ HasInverse(accValue)
        /\ SatisfiesNonMembership(nonMembership.witness, nonMembership.b,
                                  nonMembership.target, accValue)

\* C39 witness: a non-membership verified for a composite target against a
\* set of two elements, with a negative exponent on one side
C39_Witness ==
    /\ nonMembership # Null
    /\ nonMembership.verified = <<TRUE>>
    /\ nonMembership.target = 4
    /\ Len(elements) = 2
    /\ nonMembership.b < 0

(***************************************************************************)
(* Claims about the node count of a built tree (SpecMerkle)                *)
(***************************************************************************)
\* The ids of the nodes reachable from a node; every node object has an id of
\* its own, and a node paired with itself is one object
RECURSIVE NodeIdsBelow(_)
NodeIdsBelow(node) ==
    IF "left" \in DOMAIN node
    THEN {node.id} \cup NodeIdsBelow(node.left) \cup NodeIdsBelow(node.right)
    ELSE {node.id}

\* C40: nodeCount is the number of distinct nodes of the tree, the leaf nodes
\* with the duplicate and the internal nodes up to the root, for every leaf
\* count.
C40_NodeCountIsNumberOfNodes ==
    tree # Null => tree.nodeCount = Cardinality(NodeIdsBelow(tree.root))

====
